---- MODULE Spec2Model ----
(***************************************************************************)
(* Real-time tracking hub of Safar-Sathi (sockets/locationSocket.js and    *)
(* config/redis.js).  Every socket.io connection and every handler         *)
(* invocation is a little process: a synchronous run of JavaScript up to   *)
(* the next await is one step, the execution of the awaited statement by   *)
(* PostgreSQL or Redis is one step.                                        *)
(***************************************************************************)
EXTENDS Integers, Sequences, FiniteSets, TLC

\* ------------------------------------------------------------------ bounds
MaxTasks == 2        \* driver events received in one behaviour
MaxSubs == 2         \* subscription events handled on one socket

\* ------------------------------------------------------- JavaScript values
Undef == -1          \* undefined: a field that is absent
Null == -2           \* null, SQL NULL
Falsy(x) == x \in {Undef, Null, 0}
\* a || b
OrElse(a, b) == IF Falsy(a) THEN b ELSE a

\* ------------------------------------------------------------ the catalog
Conns == {1, 2, 3}
Drivers == {1, 2}            \* drivers.id; the driver's users.id is the same number
Vehicles == {1}
Trips == {1, 2}
Routes == {1, 2}
Stops == 1..6
Users == {1, 2, 3, 4, 5}     \* 3: role driver, no drivers row; 4: passenger; 5: admin

\* vehicles.assigned_driver_id: vehicle 1 is assigned to driver 1, driver 2
\* has no vehicle
assigned_driver_id == [v \in Vehicles |-> 1]

VARIABLES
  conns,              \* the sockets: token, handler position, bound ids, rooms
  tasks,              \* the invocations of the event and request handlers
  trips,              \* table trips
  drivers,            \* table drivers
  vehicle_locations,  \* table vehicle_locations (append only)
  trip_stops,         \* table trip_stops, one row per (trip, bus stop)
  driverSession,      \* Redis driver:session:<driver>
  vehicleLocation,    \* Redis vehicle:location:<vehicle>
  activeTrip,         \* Redis trip:active:<trip>
  etaCache,           \* Redis eta:<trip>:<stop>:<vehicle>
  published           \* messages published on location:<vehicle> and location:all

vars == <<conns, tasks, trips, drivers, vehicle_locations, trip_stops,
          driverSession, vehicleLocation, activeTrip, etaCache, published>>

catalog == <<trips, drivers, vehicle_locations, trip_stops>>
session == <<driverSession, vehicleLocation, activeTrip, etaCache, published>>

\* --------------------------------------------------------------- messages
\* One emitted event: its name, the sockets it is handed to, its payload.
Msg(ev, to, p) == [ev |-> ev, to |-> to, p |-> p]

\* A variant of ErrorMsg that hands the error to every socket.
ErrorMsg_Broadcast(c, m) == Msg("error", Conns, [message |-> m])

\* socket.emit('error', { message })
ErrorMsg(c, m) == Msg("error", {c}, [message |-> m])

\* socket.to(room): the open sockets that joined room, the sender excepted
To(room, c) ==
  {o \in Conns : o # c /\ conns[o].st = "open" /\ room \in conns[o].rooms}

Room(kind, id) == <<kind, id>>

\* ------------------------------------------------------------------ state
NoRow == [found |-> FALSE]
NoSession == [present |-> FALSE]
NoArgs == [none |-> TRUE]

\* socket.handshake.auth.token: a token signed with JWT_SECRET, one that
\* jwt.verify rejects (another key, expired, malformed), or Undef for none.
SignedToken == 1
ForgedToken == 2

\* A socket that has not connected yet, with the token it will present and
\* the userId and role that token carries.
NewConn(user, role) ==
  [user |-> user, role |-> role, token |-> SignedToken,
   st |-> "idle", hpc |-> "none", dpc |-> "none",
   driverId |-> Undef, vehicleId |-> Undef, tripId |-> Undef,
   rooms |-> {}, subs |-> <<>>, res |-> NoRow, out |-> <<>>]

\* A socket that plays no part.
Unused == [NewConn(0, "none") EXCEPT !.st = "unused"]

NewTrip(vehicle, driver, route, status) ==
  [vehicle_id |-> vehicle, driver_id |-> driver, route_id |-> route,
   status |-> status,
   actual_start_time |-> IF status = "scheduled" THEN Null ELSE 0,
   actual_end_time |-> Null, passenger_count |-> 0, distance_covered |-> Null]

\* The stores at start, the trips apart: nothing recorded, nothing cached.
InitRest ==
  /\ drivers = [d \in Drivers |-> [status |-> "active", total_trips |-> 0]]
  /\ vehicle_locations = <<>>
  /\ trip_stops = [t \in Trips |-> [s \in Stops |-> NoRow]]
  /\ driverSession = [d \in Drivers |-> NoSession]
  /\ vehicleLocation = [v \in Vehicles |-> NoRow]
  /\ activeTrip = [t \in Trips \cup {Null} |-> NoRow]
  /\ etaCache = {}
  /\ published = <<>>
  /\ tasks = <<>>

\* The stores at start: trip 1 runs on vehicle 1 and is active or still
\* scheduled, its driver is driver 1 (who drives vehicle 1) or driver 2;
\* trip 2 is a later trip of the same vehicle.
InitTrips(d, s) ==
  trips = [t \in Trips |->
             IF t = 1 THEN NewTrip(1, d, 1, s) ELSE NewTrip(1, 1, 2, "scheduled")]

InitStores ==
  /\ \E d \in Drivers, s \in {"active", "scheduled"} : InitTrips(d, s)
  /\ InitRest

\* ------------------------------------------------------ connection gateway
\* A variant of driverQuery that joins the scheduled trips of the vehicle too.
driverQuery_AnyTrip(u) ==
  LET row(d, v, t) ==
        [found |-> TRUE, driver_id |-> d, status |-> drivers[d].status,
         vehicle_id |-> v, trip_id |-> t,
         route_id |-> IF t = Null THEN Null ELSE trips[t].route_id,
         trip_status |-> IF t = Null THEN Null ELSE trips[t].status]
      vehiclesOf(d) == {v \in Vehicles : assigned_driver_id[v] = d}
      activeOf(v) == {t \in Trips : trips[t].vehicle_id = v /\ trips[t].status \in {"active", "scheduled"}}
  IN UNION {
       IF vehiclesOf(d) = {} THEN {row(d, Null, Null)}
       ELSE UNION {
              IF activeOf(v) = {} THEN {row(d, v, Null)}
              ELSE {row(d, v, t) : t \in activeOf(v)}
            : v \in vehiclesOf(d)}
     : d \in {e \in Drivers : e = u}}

\* The rows of driverQuery for users.id = u: the driver, LEFT JOIN the
\* vehicles assigned to the driver, LEFT JOIN the active trips of the vehicle.
driverQuery(u) ==
  LET row(d, v, t) ==
        [found |-> TRUE, driver_id |-> d, status |-> drivers[d].status,
         vehicle_id |-> v, trip_id |-> t,
         route_id |-> IF t = Null THEN Null ELSE trips[t].route_id,
         trip_status |-> IF t = Null THEN Null ELSE trips[t].status]
      vehiclesOf(d) == {v \in Vehicles : assigned_driver_id[v] = d}
      activeOf(v) == {t \in Trips : trips[t].vehicle_id = v /\ trips[t].status = "active"}
  IN UNION {
       IF vehiclesOf(d) = {} THEN {row(d, Null, Null)}
       ELSE UNION {
              IF activeOf(v) = {} THEN {row(d, v, Null)}
              ELSE {row(d, v, t) : t \in activeOf(v)}
            : v \in vehiclesOf(d)}
     : d \in {e \in Drivers : e = u}}

ConnEmit(c, m) == [conns EXCEPT ![c].out = Append(@, m)]

\* jwt.verify(token, process.env.JWT_SECRET, callback): err or decoded
jwtVerify(token) == token = SignedToken

\* A variant of authenticateSocket that does not verify the token.
authenticateSocket_Unverified(c) == ~Falsy(conns[c].token)

\* authenticateSocket: next() for a token that is present and verified,
\* next(new Error(...)) otherwise.
authenticateSocket(c) ==
  ~Falsy(conns[c].token) /\ jwtVerify(conns[c].token)

\* io.use(authenticateSocket) called next with an error: the connection is
\* refused and 'connection' is never fired for it.
ConnectRefused(c) ==
  /\ conns[c].st = "idle" /\ ~authenticateSocket(c)
  /\ conns' = [conns EXCEPT ![c].st = "refused"]
  /\ UNCHANGED <<tasks, catalog, session>>

\* A variant of Connect in which every role but driver runs
\* handlePassengerConnection.
Connect_AnyRole(c) ==
  /\ conns[c].st = "idle" /\ authenticateSocket(c)
  /\ conns' = [conns EXCEPT
       ![c].st = "open",
       ![c].hpc = CASE conns[c].role = "driver" -> "lookup"
                    [] OTHER -> "ready",
       ![c].rooms = CASE conns[c].role = "driver" -> {}
                      [] conns[c].role = "admin" -> {Room("passengers", 0), Room("admin", 0)}
                      [] OTHER -> {Room("passengers", 0)}]
  /\ UNCHANGED <<tasks, catalog, session>>

\* io.on('connection'): the token was accepted by authenticateSocket; a driver
\* starts handleDriverConnection (up to the await of the driver query), a
\* passenger or admin runs handlePassengerConnection, which has no await.
Connect(c) ==
  /\ conns[c].st = "idle" /\ authenticateSocket(c)
  /\ conns' = [conns EXCEPT
       ![c].st = "open",
       ![c].hpc = CASE conns[c].role = "driver" -> "lookup"
                    [] conns[c].role \in {"passenger", "admin"} -> "ready"
                    [] OTHER -> "none",
       ![c].rooms = CASE conns[c].role = "passenger" -> {Room("passengers", 0)}
                      [] conns[c].role = "admin" -> {Room("passengers", 0), Room("admin", 0)}
                      [] OTHER -> {}]
  /\ UNCHANGED <<tasks, catalog, session>>

\* PostgreSQL answers the driver query; rows[0] is any row of the answer.
DriverLookupExec(c, ok) ==
  /\ conns[c].hpc = "lookup"
  /\ \/ /\ ok
        /\ \/ /\ driverQuery(conns[c].user) = {}
              /\ conns' = [conns EXCEPT ![c].hpc = "lookup_done", ![c].res = NoRow]
           \/ \E r \in driverQuery(conns[c].user) :
                conns' = [conns EXCEPT ![c].hpc = "lookup_done", ![c].res = r]
     \/ /\ ~ok
        /\ conns' = [conns EXCEPT ![c].hpc = "lookup_failed"]
  /\ UNCHANGED <<tasks, catalog, session>>

\* handleDriverConnection after the driver query: no row, or bind the
\* driver, vehicle and trip to the socket, join the vehicle room and call
\* setDriverSession; a rejected query goes to the catch block.
DriverAfterLookup(c) ==
  /\ conns[c].hpc \in {"lookup_done", "lookup_failed"}
  /\ LET r == conns[c].res IN
       conns' =
         IF conns[c].hpc = "lookup_failed"
         THEN [ConnEmit(c, ErrorMsg(c, "Connection failed")) EXCEPT ![c].hpc = "failed"]
         ELSE IF ~r.found
         THEN [ConnEmit(c, ErrorMsg(c, "Driver profile not found")) EXCEPT ![c].hpc = "failed"]
         ELSE [conns EXCEPT
                 ![c].driverId = r.driver_id,
                 ![c].vehicleId = r.vehicle_id,
                 ![c].tripId = r.trip_id,
                 ![c].rooms = IF Falsy(r.vehicle_id) THEN @
                              ELSE @ \cup {Room("vehicle", r.vehicle_id)},
                 ![c].hpc = "session"]
  /\ UNCHANGED <<tasks, catalog, session>>

\* redisUtils.setDriverSession: SETEX driver:session:<driver>; an error of
\* Redis is logged inside the utility.
setDriverSession(c, ok) ==
  /\ conns[c].hpc = "session"
  /\ driverSession' =
       IF ok
       THEN [driverSession EXCEPT ![conns[c].driverId] =
               [present |-> TRUE, socketId |-> c,
                vehicleId |-> conns[c].res.vehicle_id,
                tripId |-> conns[c].res.trip_id, status |-> "connected"]]
       ELSE driverSession
  /\ conns' = [conns EXCEPT ![c].hpc = "session_done"]
  /\ UNCHANGED <<tasks, catalog, vehicleLocation, activeTrip, etaCache, published>>

\* handleDriverConnection after setDriverSession: driver_status is emitted
\* and the four event handlers are registered.
DriverReady(c) ==
  /\ conns[c].hpc = "session_done"
  /\ conns' = [ConnEmit(c, Msg("driver_status", {c},
                 [driverId |-> conns[c].res.driver_id,
                  vehicleId |-> conns[c].res.vehicle_id,
                  tripId |-> conns[c].res.trip_id,
                  tripStatus |-> conns[c].res.trip_status,
                  status |-> conns[c].res.status]))
               EXCEPT ![c].hpc = "ready"]
  /\ UNCHANGED <<tasks, catalog, session>>

\* handlePassengerConnection: subscribe_route / subscribe_vehicle /
\* unsubscribe_route / unsubscribe_vehicle on a passenger or admin socket.
Subscribe(c, room) ==
  /\ conns[c].st = "open" /\ conns[c].role \in {"passenger", "admin"}
  /\ room \notin conns[c].rooms
  /\ conns' = [conns EXCEPT ![c].rooms = @ \cup {room}]
  /\ UNCHANGED <<tasks, catalog, session>>

Unsubscribe(c, room) ==
  /\ conns[c].st = "open" /\ conns[c].role \in {"passenger", "admin"}
  /\ room \in conns[c].rooms
  /\ conns' = [conns EXCEPT ![c].rooms = @ \ {room}]
  /\ UNCHANGED <<tasks, catalog, session>>

\* A variant of OnSubscribe in which a second subscribe leaves the room.
OnSubscribe_Toggle(c, kind, id) ==
  /\ conns[c].st = "open" /\ conns[c].role \in {"passenger", "admin"}
  /\ Len(conns[c].subs) < MaxSubs
  /\ conns' = [conns EXCEPT
       ![c].rooms = IF Room(kind, id) \in @ THEN @ \ {Room(kind, id)}
                    ELSE @ \cup {Room(kind, id)},
       ![c].subs = Append(@, [ev |-> "subscribe", room |-> Room(kind, id)])]
  /\ UNCHANGED <<tasks, catalog, session>>

\* socket.on('subscribe_route') / socket.on('subscribe_vehicle') with the
\* event kept in the socket's record of handled subscription events:
\* socket.join of a room the socket is in already changes nothing.
OnSubscribe(c, kind, id) ==
  /\ conns[c].st = "open" /\ conns[c].role \in {"passenger", "admin"}
  /\ Len(conns[c].subs) < MaxSubs
  /\ conns' = [conns EXCEPT
       ![c].rooms = @ \cup {Room(kind, id)},
       ![c].subs = Append(@, [ev |-> "subscribe", room |-> Room(kind, id)])]
  /\ UNCHANGED <<tasks, catalog, session>>

\* socket.on('unsubscribe_route') / socket.on('unsubscribe_vehicle'):
\* socket.leave of a room the socket is not in changes nothing.
OnUnsubscribe(c, kind, id) ==
  /\ conns[c].st = "open" /\ conns[c].role \in {"passenger", "admin"}
  /\ Len(conns[c].subs) < MaxSubs
  /\ conns' = [conns EXCEPT
       ![c].rooms = @ \ {Room(kind, id)},
       ![c].subs = Append(@, [ev |-> "unsubscribe", room |-> Room(kind, id)])]
  /\ UNCHANGED <<tasks, catalog, session>>

\* ---------------------------------------------------------- disconnection
\* The transport closes: socket.io takes the socket out of its rooms and
\* fires 'disconnect'; handleDisconnection runs up to removeDriverSession.
Disconnect(c) ==
  /\ conns[c].st = "open"
  /\ conns' = [conns EXCEPT
       ![c].st = "closed",
       ![c].rooms = {},
       ![c].dpc = IF conns[c].role = "driver" /\ ~Falsy(conns[c].driverId)
                  THEN "remove" ELSE "done"]
  /\ UNCHANGED <<tasks, catalog, session>>

\* redisUtils.removeDriverSession called by handleDisconnection: DEL
\* driver:session:<driver>.
DisconnectRemoveSession(c, ok) ==
  /\ conns[c].dpc = "remove"
  /\ driverSession' = IF ok THEN [driverSession EXCEPT ![conns[c].driverId] = NoSession]
                      ELSE driverSession
  /\ conns' = [conns EXCEPT ![c].dpc = "status"]
  /\ UNCHANGED <<tasks, catalog, vehicleLocation, activeTrip, etaCache, published>>

\* A variant of DisconnectSetInactive that completes the driver's active
\* trips as well.
DisconnectSetInactive_EndsTrips(c, ok) ==
  /\ conns[c].dpc = "status"
  /\ drivers' = IF ok THEN [drivers EXCEPT ![conns[c].driverId].status = "inactive"]
                ELSE drivers
  /\ trips' = [id \in Trips |->
                IF trips[id].driver_id = conns[c].driverId /\ trips[id].status = "active"
                THEN [trips[id] EXCEPT !.status = "completed"] ELSE trips[id]]
  /\ conns' = [conns EXCEPT ![c].dpc = "done"]
  /\ UNCHANGED <<tasks, vehicle_locations, trip_stops, session>>

\* UPDATE drivers SET status = 'inactive' WHERE id = driverId, the last
\* statement of handleDisconnection.
DisconnectSetInactive(c, ok) ==
  /\ conns[c].dpc = "status"
  /\ drivers' = IF ok THEN [drivers EXCEPT ![conns[c].driverId].status = "inactive"]
                ELSE drivers
  /\ conns' = [conns EXCEPT ![c].dpc = "done"]
  /\ UNCHANGED <<tasks, trips, vehicle_locations, trip_stops, session>>

\* ------------------------------------------------------- handler invocations
\* A driver event is handled only when its listener is registered, which
\* handleDriverConnection does last.
Registered(c) ==
  conns[c].st = "open" /\ conns[c].role = "driver" /\ conns[c].hpc = "ready"

NewTask(c, kind, data) ==
  [conn |-> c, kind |-> kind, data |-> data, pc |-> "done", args |-> NoArgs,
   res |-> NoRow, threw |-> FALSE, out |-> <<>>, writes |-> {},
   tripId |-> Undef, rows |-> <<>>, i |-> 0, etas |-> <<>>, key |-> NoArgs,
   before |-> NoRow,
   prior |-> {j \in DOMAIN tasks : tasks[j].pc = "done"}]

Emit(t, m) == [t EXCEPT !.out = Append(@, m)]
Fail(t, m) == [Emit(t, ErrorMsg(t.conn, m)) EXCEPT !.pc = "done"]
Wrote(t, store) == [t EXCEPT !.writes = @ \cup {store}]
Running(k, pc) == k \in DOMAIN tasks /\ tasks[k].pc = pc
Store(k, t) == tasks' = [tasks EXCEPT ![k] = t]
CanReceive == Len(tasks) < MaxTasks

\* An event with no listener on the socket (the driver's handlers are not
\* registered yet, or never were): socket.io discards it.
Unhandled(c, kind, data) ==
  /\ CanReceive
  /\ conns[c].st = "open" /\ conns[c].role = "driver" /\ ~Registered(c)
  /\ tasks' = Append(tasks, [NewTask(c, kind, data) EXCEPT !.pc = "ignored"])
  /\ UNCHANGED <<conns, catalog, session>>

\* ------------------------------------------------------- trip state machine
\* UPDATE trips SET status = 'active', actual_start_time = NOW()
\*   WHERE id = $1 AND driver_id = $2 RETURNING *
startUpdate(id, driver, now) ==
  IF id \in Trips /\ trips[id].driver_id = driver
  THEN [trips EXCEPT ![id].status = "active", ![id].actual_start_time = now]
  ELSE trips

\* A variant of endUpdate that leaves distance_covered as it was.
endUpdate_KeepsDistance(id, driver, count, distance, now) ==
  IF id \in Trips /\ trips[id].driver_id = driver
  THEN [trips EXCEPT ![id].status = "completed", ![id].actual_end_time = now,
                     ![id].passenger_count = count]
  ELSE trips

\* UPDATE trips SET status = 'completed', actual_end_time = NOW(),
\*   passenger_count = $3, distance_covered = $4
\*   WHERE id = $1 AND driver_id = $2 RETURNING *
endUpdate(id, driver, count, distance, now) ==
  IF id \in Trips /\ trips[id].driver_id = driver
  THEN [trips EXCEPT ![id].status = "completed", ![id].actual_end_time = now,
                     ![id].passenger_count = count,
                     ![id].distance_covered = distance]
  ELSE trips

\* The row a statement on trips finds, for the record of the invocation.
Before(id) == IF id \in Trips THEN [found |-> TRUE, row |-> trips[id]] ELSE NoRow

\* The RETURNING * of a conditional update: the row as updated, or no row.
Returning(after, id, driver) ==
  IF id \in Trips /\ after[id].driver_id = driver
  THEN [found |-> TRUE, id |-> id, row |-> after[id]]
  ELSE NoRow

\* handleTripStart up to the await of the update.
handleTripStart(c) ==
  /\ CanReceive /\ Registered(c)
  /\ LET t == NewTask(c, "start_trip", NoArgs) IN
       tasks' = Append(tasks,
         IF Falsy(conns[c].tripId) THEN Fail(t, "No active trip found")
         ELSE [t EXCEPT !.pc = "start_update",
                        !.args = [tripId |-> conns[c].tripId,
                                  driverId |-> conns[c].driverId]])
  /\ UNCHANGED <<conns, catalog, session>>

\* PostgreSQL executes the update of handleTripStart.
StartUpdateExec(k, ok) ==
  /\ Running(k, "start_update")
  /\ LET t == tasks[k]
         after == startUpdate(t.args.tripId, t.args.driverId, k) IN
       IF ok
       THEN /\ trips' = after
            /\ Store(k, [(IF after = trips THEN t ELSE Wrote(t, "trips")) EXCEPT
                 !.pc = "start_updated", !.before = Before(t.args.tripId),
                 !.res = Returning(after, t.args.tripId, t.args.driverId)])
       ELSE /\ trips' = trips
            /\ Store(k, [t EXCEPT !.pc = "start_updated", !.threw = TRUE])
  /\ UNCHANGED <<conns, drivers, vehicle_locations, trip_stops, session>>

\* A variant of StartAfterUpdate that returns without a reply when the update
\* gave no row or was rejected.
StartAfterUpdate_Silent(k) ==
  /\ Running(k, "start_updated")
  /\ LET t == tasks[k] IN
       Store(k, IF t.threw \/ ~t.res.found THEN [t EXCEPT !.pc = "done"]
                ELSE [t EXCEPT !.pc = "start_cache",
                               !.args = [key |-> conns[t.conn].tripId]])
  /\ UNCHANGED <<conns, catalog, session>>

\* handleTripStart after the update: zero rows is StartFailed, otherwise
\* setActiveTripData(socket.tripId, trip) is called.
StartAfterUpdate(k) ==
  /\ Running(k, "start_updated")
  /\ LET t == tasks[k] IN
       Store(k, IF t.threw \/ ~t.res.found THEN Fail(t, "Failed to start trip")
                ELSE [t EXCEPT !.pc = "start_cache",
                               !.args = [key |-> conns[t.conn].tripId]])
  /\ UNCHANGED <<conns, catalog, session>>

\* redisUtils.setActiveTripData: SETEX trip:active:<trip>.
setActiveTripData(k, ok) ==
  /\ Running(k, "start_cache")
  /\ LET t == tasks[k] IN
       /\ activeTrip' = IF ok THEN [activeTrip EXCEPT ![t.args.key] = t.res]
                        ELSE activeTrip
       /\ Store(k, [(IF ok THEN Wrote(t, "activeTrip") ELSE t) EXCEPT !.pc = "start_notify"])
  /\ UNCHANGED <<conns, catalog, driverSession, vehicleLocation, etaCache, published>>

\* handleTripStart, the notifications.
StartNotify(k) ==
  /\ Running(k, "start_notify")
  /\ LET t == tasks[k]
         c == t.conn
         row == t.res.row
         ack == Msg("trip_started", {c},
                    [tripId |-> conns[c].tripId, startTime |-> row.actual_start_time])
         upd == Msg("trip_status_update", To(Room("route", row.route_id), c),
                    [tripId |-> conns[c].tripId, vehicleId |-> conns[c].vehicleId,
                     status |-> "active", time |-> row.actual_start_time]) IN
       Store(k, [Emit(Emit(t, ack), upd) EXCEPT !.pc = "done"])
  /\ UNCHANGED <<conns, catalog, session>>

\* A variant of handleTripEnd that ends the trip the payload names.
handleTripEnd_PayloadTrip(c, data) ==
  /\ CanReceive /\ Registered(c)
  /\ LET t == NewTask(c, "end_trip", data) IN
       tasks' = Append(tasks,
         IF Falsy(conns[c].tripId) THEN Fail(t, "No active trip found")
         ELSE [t EXCEPT !.pc = "end_update",
                        !.args = [tripId |-> data.tripId,
                                  driverId |-> conns[c].driverId,
                                  count |-> OrElse(data.passengerCount, 0),
                                  distance |-> OrElse(data.distanceCovered, 0)]])
  /\ UNCHANGED <<conns, catalog, session>>

\* handleTripEnd up to the await of the update.
handleTripEnd(c, data) ==
  /\ CanReceive /\ Registered(c)
  /\ LET t == NewTask(c, "end_trip", data) IN
       tasks' = Append(tasks,
         IF Falsy(conns[c].tripId) THEN Fail(t, "No active trip found")
         ELSE [t EXCEPT !.pc = "end_update",
                        !.args = [tripId |-> conns[c].tripId,
                                  driverId |-> conns[c].driverId,
                                  count |-> OrElse(data.passengerCount, 0),
                                  distance |-> OrElse(data.distanceCovered, 0)]])
  /\ UNCHANGED <<conns, catalog, session>>

\* PostgreSQL executes the update of handleTripEnd.
EndUpdateExec(k, ok) ==
  /\ Running(k, "end_update")
  /\ LET t == tasks[k]
         after == endUpdate(t.args.tripId, t.args.driverId, t.args.count,
                            t.args.distance, k) IN
       IF ok
       THEN /\ trips' = after
            /\ Store(k, [(IF after = trips THEN t ELSE Wrote(t, "trips")) EXCEPT
                 !.pc = "end_updated", !.before = Before(t.args.tripId),
                 !.res = Returning(after, t.args.tripId, t.args.driverId)])
       ELSE /\ trips' = trips
            /\ Store(k, [t EXCEPT !.pc = "end_updated", !.threw = TRUE])
  /\ UNCHANGED <<conns, drivers, vehicle_locations, trip_stops, session>>

\* handleTripEnd after the update: zero rows is EndFailed, otherwise
\* removeDriverSession(socket.driverId) is called.
EndAfterUpdate(k) ==
  /\ Running(k, "end_updated")
  /\ LET t == tasks[k] IN
       Store(k, IF t.threw \/ ~t.res.found THEN Fail(t, "Failed to end trip")
                ELSE [t EXCEPT !.pc = "end_remove",
                               !.args = [driverId |-> conns[t.conn].driverId]])
  /\ UNCHANGED <<conns, catalog, session>>

\* redisUtils.removeDriverSession called by handleTripEnd.
EndRemoveSession(k, ok) ==
  /\ Running(k, "end_remove")
  /\ LET t == tasks[k] IN
       /\ driverSession' = IF ok THEN [driverSession EXCEPT ![t.args.driverId] = NoSession]
                           ELSE driverSession
       /\ Store(k, [(IF ok THEN Wrote(t, "driverSession") ELSE t) EXCEPT !.pc = "end_count"])
  /\ UNCHANGED <<conns, catalog, vehicleLocation, activeTrip, etaCache, published>>

\* UPDATE drivers SET total_trips = total_trips + 1 WHERE id = driverId
EndCountTrip(k, ok) ==
  /\ Running(k, "end_count")
  /\ LET t == tasks[k] IN
       IF ok
       THEN /\ drivers' = [drivers EXCEPT ![t.args.driverId].total_trips = @ + 1]
            /\ Store(k, [Wrote(t, "drivers") EXCEPT !.pc = "end_notify"])
       ELSE /\ drivers' = drivers
            /\ Store(k, [t EXCEPT !.pc = "end_notify", !.threw = TRUE])
  /\ UNCHANGED <<conns, trips, vehicle_locations, trip_stops, session>>

\* A variant of EndNotify that clears the vehicle binding with the trip
\* binding.
EndNotify_ClearsVehicle(k) ==
  /\ Running(k, "end_notify")
  /\ LET t == tasks[k]
         c == t.conn
         row == t.res.row
         ack == Msg("trip_ended", {c},
                    [tripId |-> conns[c].tripId, endTime |-> row.actual_end_time,
                     passengerCount |-> row.passenger_count,
                     distanceCovered |-> row.distance_covered])
         upd == Msg("trip_status_update", To(Room("route", row.route_id), c),
                    [tripId |-> conns[c].tripId, vehicleId |-> conns[c].vehicleId,
                     status |-> "completed", time |-> row.actual_end_time]) IN
       IF t.threw
       THEN /\ Store(k, Fail(t, "Failed to end trip"))
            /\ conns' = conns
       ELSE /\ Store(k, [Emit(Emit(t, ack), upd) EXCEPT !.pc = "done"])
            /\ conns' = [conns EXCEPT ![c].tripId = Null, ![c].vehicleId = Null]
  /\ UNCHANGED <<catalog, session>>

\* handleTripEnd, the notifications and socket.tripId = null.
EndNotify(k) ==
  /\ Running(k, "end_notify")
  /\ LET t == tasks[k]
         c == t.conn
         row == t.res.row
         ack == Msg("trip_ended", {c},
                    [tripId |-> conns[c].tripId, endTime |-> row.actual_end_time,
                     passengerCount |-> row.passenger_count,
                     distanceCovered |-> row.distance_covered])
         upd == Msg("trip_status_update", To(Room("route", row.route_id), c),
                    [tripId |-> conns[c].tripId, vehicleId |-> conns[c].vehicleId,
                     status |-> "completed", time |-> row.actual_end_time]) IN
       IF t.threw
       THEN /\ Store(k, Fail(t, "Failed to end trip"))
            /\ conns' = conns
       ELSE /\ Store(k, [Emit(Emit(t, ack), upd) EXCEPT !.pc = "done"])
            /\ conns' = [conns EXCEPT ![c].tripId = Null]
  /\ UNCHANGED <<catalog, session>>

\* -------------------------------------------------- passenger-count recorder
\* A query parameter that is undefined is sent as NULL.
Param(x) == IF x = Undef THEN Null ELSE x

\* handlePassengerCountUpdate up to the await of the update.
handlePassengerCountUpdate(c, data) ==
  /\ CanReceive /\ Registered(c)
  /\ LET t == NewTask(c, "passenger_count_update", data) IN
       tasks' = Append(tasks,
         IF Falsy(conns[c].tripId) THEN Fail(t, "No active trip found")
         ELSE [t EXCEPT !.pc = "count_update",
                        !.args = [tripId |-> conns[c].tripId, count |-> data.count]])
  /\ UNCHANGED <<conns, catalog, session>>

\* UPDATE trips SET passenger_count = $1 WHERE id = $2
CountUpdateExec(k, ok) ==
  /\ Running(k, "count_update")
  /\ LET t == tasks[k] IN
       IF ok
       THEN /\ trips' = IF t.args.tripId \in Trips
                        THEN [trips EXCEPT ![t.args.tripId].passenger_count = Param(t.args.count)]
                        ELSE trips
            /\ Store(k, [Wrote(t, "trips") EXCEPT !.pc = "count_updated"])
       ELSE /\ trips' = trips
            /\ Store(k, [t EXCEPT !.pc = "count_updated", !.threw = TRUE])
  /\ UNCHANGED <<conns, drivers, vehicle_locations, trip_stops, session>>

CountNotice(t) ==
  Msg("passenger_count_update",
      To(Room("vehicle", conns[t.conn].vehicleId), t.conn),
      [vehicleId |-> conns[t.conn].vehicleId, tripId |-> conns[t.conn].tripId,
       passengerCount |-> t.data.count, stopId |-> t.data.stopId])

\* handlePassengerCountUpdate after the update: with a stop id the upsert of
\* trip_stops is sent, without one the vehicle room is notified.
CountAfterUpdate(k) ==
  /\ Running(k, "count_updated")
  /\ LET t == tasks[k] IN
       Store(k, IF t.threw THEN Fail(t, "Failed to update passenger count")
                ELSE IF ~Falsy(t.data.stopId)
                THEN [t EXCEPT !.pc = "count_upsert",
                               !.args = [tripId |-> conns[t.conn].tripId,
                                         stopId |-> t.data.stopId,
                                         count |-> t.data.count]]
                ELSE [Emit(t, CountNotice(t)) EXCEPT !.pc = "done"])
  /\ UNCHANGED <<conns, catalog, session>>

\* INSERT INTO trip_stops ... ON CONFLICT (trip_id, bus_stop_id) DO UPDATE
\*   SET passengers_boarded = $3, actual_arrival = NOW()
\* trip_id is NOT NULL and both ids are foreign keys.
CountUpsertExec(k, ok) ==
  /\ Running(k, "count_upsert")
  /\ LET t == tasks[k]
         valid == t.args.tripId \in Trips /\ t.args.stopId \in Stops IN
       IF ok /\ valid
       THEN /\ trip_stops' = [trip_stops EXCEPT ![t.args.tripId][t.args.stopId] =
                 [found |-> TRUE, passengers_boarded |-> Param(t.args.count),
                  actual_arrival |-> k]]
            /\ Store(k, [Wrote(t, "trip_stops") EXCEPT !.pc = "count_notify"])
       ELSE /\ trip_stops' = trip_stops
            /\ Store(k, [t EXCEPT !.pc = "count_notify", !.threw = TRUE])
  /\ UNCHANGED <<conns, trips, drivers, vehicle_locations, session>>

\* handlePassengerCountUpdate, the notification of the vehicle room.
CountNotify(k) ==
  /\ Running(k, "count_notify")
  /\ LET t == tasks[k] IN
       Store(k, IF t.threw THEN Fail(t, "Failed to update passenger count")
                ELSE [Emit(t, CountNotice(t)) EXCEPT !.pc = "done"])
  /\ UNCHANGED <<conns, catalog, session>>

\* ------------------------------------------------------------ geo distance
\* Fixed-point arithmetic: angles and ratios are counted in units of 1/Scale.
Scale == 10000
PiScaled == 31416            \* Math.PI in units of 1/Scale
EarthRadius == 6371          \* R, in km
averageSpeed == 30           \* km/h

Abs(x) == IF x < 0 THEN -x ELSE x
\* x * y / Scale, the product taken in two parts to stay within 32 bits
Mul(x, y) == x * (y \div Scale) + (x * (y % Scale)) \div Scale

\* deg * Math.PI / 180
Radians(deg) == (deg * PiScaled) \div 180

\* Math.sin, Math.cos: the series up to the seventh and sixth power
Sin(x) ==
  LET x2 == Mul(x, x)
      x3 == Mul(x2, x)
      x5 == Mul(x3, x2)
      x7 == Mul(x5, x2)
  IN x - (x3 \div 6) + (x5 \div 120) - (x7 \div 5040)

Cos(x) ==
  LET x2 == Mul(x, x)
      x4 == Mul(x2, x2)
      x6 == Mul(x4, x2)
  IN Scale - (x2 \div 2) + (x4 \div 24) - (x6 \div 720)

\* Math.sqrt of n / Scale^2, in units of 1/Scale: the integer square root
RECURSIVE SqrtSearch(_, _, _)
SqrtSearch(n, lo, hi) ==
  IF lo >= hi THEN lo
  ELSE LET mid == (lo + hi + 1) \div 2 IN
         IF mid * mid <= n THEN SqrtSearch(n, mid, hi) ELSE SqrtSearch(n, lo, mid - 1)
Sqrt(n) == SqrtSearch(n, 0, 2 * Scale)

\* Math.atan of z in [0, 1]: atan z = 2 atan(z / (1 + sqrt(1 + z^2))), then
\* the series up to the fifth power
Atan(z) ==
  LET w == (z * Scale) \div (Scale + Sqrt(Scale * Scale + z * z))
      w2 == Mul(w, w)
      w3 == Mul(w2, w)
      w5 == Mul(w3, w2)
  IN 2 * (w - (w3 \div 3) + (w5 \div 5))

\* Math.atan2(y, x) for y >= 0 and x >= 0
Atan2(y, x) ==
  IF y = 0 THEN 0
  ELSE IF y <= x THEN Atan((y * Scale) \div x)
  ELSE (PiScaled \div 2) - Atan((x * Scale) \div y)

\* calculateDistance: the haversine distance in hundredths of a km; the
\* coordinates are whole degrees.
calculateDistance(lat1, lon1, lat2, lon2) ==
  LET dLat == Radians(lat2 - lat1)
      dLon == Radians(lon2 - lon1)
      sLat == Sin(Abs(dLat) \div 2)
      sLon == Sin(Abs(dLon) \div 2)
      \* a in units of 1/Scale^2
      cc == Mul(Cos(Radians(lat1)), Cos(Radians(lat2)))
      a == sLat * sLat + Mul(cc, sLon * sLon)
      c == 2 * Atan2(Sqrt(a), Sqrt(Scale * Scale - a))
  IN (EarthRadius * c) \div 100

\* A variant of etaMinutes that truncates.
etaMinutes_Truncates(distance) == ((distance * 60) \div averageSpeed) \div 100

\* Math.round((distance / averageSpeed) * 60), distance in hundredths of a km
etaMinutes(distance) == ((distance * 60) \div averageSpeed + 50) \div 100

\* ------------------------------------------------------------ route tables
\* route_stops: route 1 has six stops in the order of their ids; route 2
\* calls at stop 1 as its fourth stop and at stop 6 as its first.
route_stops ==
  {[route_id |-> 1, bus_stop_id |-> s, stop_order |-> s] : s \in 1..6}
  \cup {[route_id |-> 2, bus_stop_id |-> 1, stop_order |-> 4],
        [route_id |-> 2, bus_stop_id |-> 6, stop_order |-> 1]}

\* bus_stops.location: the stops lie one degree apart along two parallels
bus_stops ==
  [s \in 1..6 |-> [latitude |-> 30 + (s % 2), longitude |-> 78 + (s \div 2)]]

\* ------------------------------------------------- location ingestion pipeline
\* The INSERT INTO vehicle_locations of handleLocationUpdate: the point is
\* POINT(longitude latitude), speed || null and so on, timestamp or now.
locationRow(c, data, now) ==
  [id |-> now, vehicle_id |-> conns[c].vehicleId, trip_id |-> Param(conns[c].tripId),
   x |-> data.longitude, y |-> data.latitude,
   speed |-> OrElse(data.speed, Null), heading |-> OrElse(data.heading, Null),
   accuracy |-> OrElse(data.accuracy, Null),
   timestamp |-> IF Falsy(data.timestamp) THEN now ELSE data.timestamp]

\* cacheData of handleLocationUpdate, as JSON.stringify keeps it: a field
\* that is undefined is left out, which reads back as undefined.
cacheData(c, data, now) ==
  [vehicleId |-> conns[c].vehicleId, tripId |-> conns[c].tripId,
   latitude |-> data.latitude, longitude |-> data.longitude,
   speed |-> data.speed, heading |-> data.heading, accuracy |-> data.accuracy,
   timestamp |-> OrElse(data.timestamp, now), driverId |-> conns[c].driverId]

\* A variant of invalidLocation that rejects an absent coordinate only.
invalidLocation_AbsentOnly(data) == data.latitude = Undef \/ data.longitude = Undef

\* if (!latitude || !longitude)
invalidLocation(data) == Falsy(data.latitude) \/ Falsy(data.longitude)

\* A variant of noVehicle that takes null for a vehicle.
noVehicle_UndefinedOnly(c) == conns[c].vehicleId = Undef

\* if (!socket.vehicleId)
noVehicle(c) == Falsy(conns[c].vehicleId)

\* handleLocationUpdate up to the await of the insert.
handleLocationUpdate(c, data) ==
  /\ CanReceive /\ Registered(c)
  /\ LET t == NewTask(c, "location_update", data)
         k == Len(tasks) + 1 IN
       tasks' = Append(tasks,
         IF invalidLocation(data)
         THEN Fail(t, "Invalid location data")
         ELSE IF noVehicle(c)
         THEN Fail(t, "No vehicle assigned")
         ELSE [t EXCEPT !.pc = "loc_insert", !.args = locationRow(c, data, k)])
  /\ UNCHANGED <<conns, catalog, session>>

\* PostgreSQL executes the insert.
LocInsertExec(k, ok) ==
  /\ Running(k, "loc_insert")
  /\ LET t == tasks[k] IN
       IF ok
       THEN /\ vehicle_locations' = Append(vehicle_locations, t.args)
            /\ Store(k, [Wrote(t, "vehicle_locations") EXCEPT !.pc = "loc_inserted"])
       ELSE /\ vehicle_locations' = vehicle_locations
            /\ Store(k, [t EXCEPT !.pc = "loc_inserted", !.threw = TRUE])
  /\ UNCHANGED <<conns, trips, drivers, trip_stops, session>>

\* A variant of LocAfterInsert that goes on after a rejected insert.
LocAfterInsert_IgnoresFailure(k) ==
  /\ Running(k, "loc_inserted")
  /\ LET t == tasks[k] IN
       Store(k, [t EXCEPT !.pc = "loc_cache",
                          !.args = cacheData(t.conn, t.data, k)])
  /\ UNCHANGED <<conns, catalog, session>>

\* handleLocationUpdate after the insert: cacheData is built from the socket
\* and cacheVehicleLocation is called.
LocAfterInsert(k) ==
  /\ Running(k, "loc_inserted")
  /\ LET t == tasks[k] IN
       Store(k, IF t.threw THEN Fail(t, "Failed to update location")
                ELSE [t EXCEPT !.pc = "loc_cache",
                               !.args = cacheData(t.conn, t.data, k)])
  /\ UNCHANGED <<conns, catalog, session>>

\* redisUtils.cacheVehicleLocation: SETEX vehicle:location:<vehicle>.
cacheVehicleLocation(k, ok) ==
  /\ Running(k, "loc_cache")
  /\ LET t == tasks[k] IN
       /\ vehicleLocation' =
            IF ok THEN [vehicleLocation EXCEPT ![t.args.vehicleId] =
                          [found |-> TRUE, data |-> t.args]]
            ELSE vehicleLocation
       /\ Store(k, [(IF ok THEN Wrote(t, "vehicleLocation") ELSE t) EXCEPT !.pc = "loc_publish"])
  /\ UNCHANGED <<conns, catalog, driverSession, activeTrip, etaCache, published>>

\* A variant of publishLocationUpdate whose failure reaches the handler.
publishLocationUpdate_Throws(k, ok) ==
  /\ Running(k, "loc_publish")
  /\ LET t == tasks[k] IN
       /\ published' =
            IF ok THEN published \o <<[channel |-> t.args.vehicleId, data |-> t.args],
                                      [channel |-> 0, data |-> t.args]>>
            ELSE published
       /\ Store(k, IF ok THEN [Wrote(t, "published") EXCEPT !.pc = "loc_fanout"]
                   ELSE Fail(t, "Failed to update location"))
  /\ UNCHANGED <<conns, catalog, driverSession, vehicleLocation, activeTrip, etaCache>>

\* redisUtils.publishLocationUpdate: PUBLISH location:<vehicle>, then
\* PUBLISH location:all; the second is skipped when the first fails.
publishLocationUpdate(k, ok) ==
  /\ Running(k, "loc_publish")
  /\ LET t == tasks[k] IN
       /\ published' =
            IF ok THEN published \o <<[channel |-> t.args.vehicleId, data |-> t.args],
                                      [channel |-> 0, data |-> t.args]>>
            ELSE published
       /\ Store(k, [(IF ok THEN Wrote(t, "published") ELSE t) EXCEPT !.pc = "loc_fanout"])
  /\ UNCHANGED <<conns, catalog, driverSession, vehicleLocation, activeTrip, etaCache>>

AdminNotice(t) ==
  Msg("vehicle_location_update", To(Room("admin", 0), t.conn), t.args)

\* handleLocationUpdate after the publish: the vehicle room is notified;
\* with a bound trip the route query is sent, without one the admin room is
\* notified and calculateAndEmitETAs returns at once.
LocFanout(k) ==
  /\ Running(k, "loc_fanout")
  /\ LET t == tasks[k]
         c == t.conn
         t1 == Emit(t, Msg("location_update",
                           To(Room("vehicle", conns[c].vehicleId), c), t.args)) IN
       Store(k, IF ~Falsy(conns[c].tripId)
                THEN [t1 EXCEPT !.pc = "loc_route", !.tripId = conns[c].tripId]
                ELSE [Emit(t1, AdminNotice(t)) EXCEPT !.pc = "done"])
  /\ UNCHANGED <<conns, catalog, session>>

\* SELECT route_id FROM trips WHERE id = $1
LocRouteExec(k, ok) ==
  /\ Running(k, "loc_route")
  /\ LET t == tasks[k] IN
       Store(k, IF ok
                THEN [t EXCEPT !.pc = "loc_routed",
                               !.res = IF t.tripId \in Trips
                                       THEN [found |-> TRUE, route_id |-> trips[t.tripId].route_id]
                                       ELSE NoRow]
                ELSE [t EXCEPT !.pc = "loc_routed", !.threw = TRUE])
  /\ UNCHANGED <<conns, catalog, session>>

\* A variant of visitedOrder that finds no arrival.
visitedOrder_None(trip) == 0

\* The stops query of calculateAndEmitETAs: the stops of the trip's route
\* whose stop_order is above the highest stop_order, on any route, of a stop
\* the trip has arrived at; ORDER BY stop_order LIMIT 5.
visitedOrder(trip) ==
  LET orders == {rs.stop_order : rs \in {r \in route_stops :
                    /\ trip_stops[trip][r.bus_stop_id].found
                    /\ trip_stops[trip][r.bus_stop_id].actual_arrival # Null}}
  IN IF orders = {} THEN 0 ELSE CHOOSE m \in orders : \A o \in orders : o <= m

RECURSIVE OrderBy(_)
OrderBy(rows) ==
  IF rows = {} THEN <<>>
  ELSE LET first == CHOOSE r \in rows : \A o \in rows : r.stop_order <= o.stop_order
       IN <<first>> \o OrderBy(rows \ {first})

Limit(seq, n) == IF Len(seq) <= n THEN seq ELSE SubSeq(seq, 1, n)

stopsQuery(trip) ==
  IF trip \notin Trips THEN <<>>
  ELSE Limit(OrderBy({[id |-> rs.bus_stop_id,
                       latitude |-> bus_stops[rs.bus_stop_id].latitude,
                       longitude |-> bus_stops[rs.bus_stop_id].longitude,
                       stop_order |-> rs.stop_order] :
                      rs \in {r \in route_stops : /\ r.route_id = trips[trip].route_id
                                                  /\ r.stop_order > visitedOrder(trip)}}),
             5)

\* calculateAndEmitETAs up to the await of the stops query; nothing is sent
\* when socket.tripId is not set.
EnterETAs(t) ==
  IF Falsy(conns[t.conn].tripId) THEN [t EXCEPT !.pc = "done"]
  ELSE [t EXCEPT !.pc = "eta_stops", !.tripId = conns[t.conn].tripId]

\* A variant of LocAfterRoute that sends route_vehicle_update to the
\* passengers room.
LocAfterRoute_ToPassengers(k) ==
  /\ Running(k, "loc_routed")
  /\ LET t == tasks[k]
         c == t.conn
         route == Msg("route_vehicle_update", To(Room("passengers", 0), c),
                      [routeId |-> t.res.route_id, data |-> t.args])
         t1 == IF t.res.found THEN Emit(t, route) ELSE t IN
       Store(k, IF t.threw THEN Fail(t, "Failed to update location")
                ELSE EnterETAs(Emit(t1, AdminNotice(t))))
  /\ UNCHANGED <<conns, catalog, session>>

\* handleLocationUpdate after the route query: the route room and the admin
\* room are notified, calculateAndEmitETAs is entered.
LocAfterRoute(k) ==
  /\ Running(k, "loc_routed")
  /\ LET t == tasks[k]
         c == t.conn
         route == Msg("route_vehicle_update", To(Room("route", t.res.route_id), c),
                      [routeId |-> t.res.route_id, data |-> t.args])
         t1 == IF t.res.found THEN Emit(t, route) ELSE t IN
       Store(k, IF t.threw THEN Fail(t, "Failed to update location")
                ELSE EnterETAs(Emit(t1, AdminNotice(t))))
  /\ UNCHANGED <<conns, catalog, session>>

\* PostgreSQL answers the stops query.
EtaStopsExec(k, ok) ==
  /\ Running(k, "eta_stops")
  /\ LET t == tasks[k] IN
       Store(k, IF ok THEN [t EXCEPT !.pc = "eta_rows", !.rows = stopsQuery(t.tripId)]
                ELSE [t EXCEPT !.pc = "eta_rows", !.threw = TRUE])
  /\ UNCHANGED <<conns, catalog, session>>

\* One pass of the loop of calculateAndEmitETAs up to the await of cacheETA.
EtaEntry(t, stop) ==
  LET distance == calculateDistance(t.data.latitude, t.data.longitude,
                                    stop.latitude, stop.longitude)
  IN [stopId |-> stop.id, eta |-> etaMinutes(distance), distance |-> distance]

EtaLoop(t, i) ==
  LET c == t.conn
      entry == EtaEntry(t, t.rows[i]) IN
    [t EXCEPT !.pc = "eta_cache", !.i = i, !.etas = Append(@, entry),
              !.key = [trip |-> conns[c].tripId, stop |-> entry.stopId,
                       vehicle |-> conns[c].vehicleId, eta |-> entry.eta]]

\* A variant of EtaAfterStops that reports the failed query to the driver.
EtaAfterStops_Reports(k) ==
  /\ Running(k, "eta_rows")
  /\ LET t == tasks[k] IN
       Store(k, IF t.threw THEN Fail(t, "Failed to update location")
                ELSE IF Len(t.rows) = 0 THEN [t EXCEPT !.pc = "done"]
                ELSE EtaLoop(t, 1))
  /\ UNCHANGED <<conns, catalog, session>>

\* calculateAndEmitETAs after the stops query: a failed query is logged
\* only, no row ends the computation, otherwise the loop starts.
EtaAfterStops(k) ==
  /\ Running(k, "eta_rows")
  /\ LET t == tasks[k] IN
       Store(k, IF t.threw \/ Len(t.rows) = 0 THEN [t EXCEPT !.pc = "done"]
                ELSE EtaLoop(t, 1))
  /\ UNCHANGED <<conns, catalog, session>>

\* redisUtils.cacheETA: SETEX eta:<trip>:<stop>:<vehicle>.
cacheETA(k, ok) ==
  /\ Running(k, "eta_cache")
  /\ LET t == tasks[k]
         same(e) == e.trip = t.key.trip /\ e.stop = t.key.stop /\ e.vehicle = t.key.vehicle IN
       /\ etaCache' = IF ok THEN {e \in etaCache : ~same(e)} \cup {t.key} ELSE etaCache
       /\ Store(k, [(IF ok THEN Wrote(t, "etaCache") ELSE t) EXCEPT !.pc = "eta_cached"])
  /\ UNCHANGED <<conns, catalog, driverSession, vehicleLocation, activeTrip, published>>

\* A variant of EtaNext that sends eta_update after every stop.
EtaNext_EachStop(k) ==
  /\ Running(k, "eta_cached")
  /\ LET t == tasks[k]
         c == t.conn
         u == Emit(t, Msg("eta_update", To(Room("passengers", 0), c),
                          [vehicleId |-> conns[c].vehicleId,
                           tripId |-> conns[c].tripId, etas |-> t.etas])) IN
       Store(k, IF t.i < Len(t.rows) THEN EtaLoop(u, t.i + 1)
                ELSE [u EXCEPT !.pc = "done"])
  /\ UNCHANGED <<conns, catalog, session>>

\* calculateAndEmitETAs after cacheETA: the next stop, or eta_update to the
\* passengers room.
EtaNext(k) ==
  /\ Running(k, "eta_cached")
  /\ LET t == tasks[k]
         c == t.conn IN
       Store(k, IF t.i < Len(t.rows) THEN EtaLoop(t, t.i + 1)
                ELSE [Emit(t, Msg("eta_update", To(Room("passengers", 0), c),
                                  [vehicleId |-> conns[c].vehicleId,
                                   tripId |-> conns[c].tripId, etas |-> t.etas]))
                      EXCEPT !.pc = "done"])
  /\ UNCHANGED <<conns, catalog, session>>

\* ------------------------------------------------------------ CRUD surface
\* The trip status update of the REST surface (PUT /api/trips/:id): an
\* operator starts a scheduled trip of a vehicle that has no active trip, or
\* cancels a trip that is not completed.
CrudStartTrip(id) ==
  /\ trips[id].status = "scheduled"
  /\ \A o \in Trips : trips[o].vehicle_id = trips[id].vehicle_id => trips[o].status # "active"
  /\ trips' = [trips EXCEPT ![id].status = "active", ![id].actual_start_time = 0]
  /\ UNCHANGED <<conns, tasks, drivers, vehicle_locations, trip_stops, session>>

CrudCancelTrip(id) ==
  /\ trips[id].status \in {"scheduled", "active"}
  /\ trips' = [trips EXCEPT ![id].status = "cancelled"]
  /\ UNCHANGED <<conns, tasks, drivers, vehicle_locations, trip_stops, session>>

\* ---------------------------------------------------------- specifications
EndData == {[passengerCount |-> Undef, distanceCovered |-> Undef],
            [passengerCount |-> 12, distanceCovered |-> 8]}
CountData == {[count |-> 7, stopId |-> Undef], [count |-> 9, stopId |-> 2]}
RouteRooms == {Room("route", r) : r \in Routes}

ConnStep(ok) ==
  \/ \E c \in Conns : Connect(c)
  \/ \E c \in Conns : DriverLookupExec(c, ok)
  \/ \E c \in Conns : DriverAfterLookup(c)
  \/ \E c \in Conns : setDriverSession(c, ok)
  \/ \E c \in Conns : DriverReady(c)

TripStep(ok) ==
  \/ \E c \in Conns : handleTripStart(c)
  \/ \E k \in DOMAIN tasks : StartUpdateExec(k, ok)
  \/ \E k \in DOMAIN tasks : StartAfterUpdate(k)
  \/ \E k \in DOMAIN tasks : setActiveTripData(k, ok)
  \/ \E k \in DOMAIN tasks : StartNotify(k)
  \/ \E c \in Conns, d \in EndData : handleTripEnd(c, d)
  \/ \E k \in DOMAIN tasks : EndUpdateExec(k, ok)
  \/ \E k \in DOMAIN tasks : EndAfterUpdate(k)
  \/ \E k \in DOMAIN tasks : EndRemoveSession(k, ok)
  \/ \E k \in DOMAIN tasks : EndCountTrip(k, ok)
  \/ \E k \in DOMAIN tasks : EndNotify(k)

\* Trip lifecycle: a socket of driver 1 and two passengers; start_trip and
\* end_trip in any interleaving of their handlers and the stores.
InitTrip ==
  /\ InitStores
  /\ conns = [c \in Conns |-> IF c = 1 THEN NewConn(1, "driver") ELSE NewConn(4, "passenger")]

NextTrip ==
  \/ ConnStep(TRUE)
  \/ TripStep(TRUE)
  \/ \E c \in Conns : Subscribe(c, Room("route", 1))

SpecTrip == InitTrip /\ [][NextTrip]_vars

\* -------------------------------------------------------------------- claims
Rank(status) == CASE status = "scheduled" -> 0 [] status = "active" -> 1 [] OTHER -> 2

\* C1 (as claimed): a trip's status only moves forward along scheduled ->
\* active -> completed; the hub never takes a completed or cancelled trip
\* back to active and never sets a status to cancelled.
C1_StatusOnlyMovesForward ==
  [][\A id \in Trips :
       /\ Rank(trips'[id].status) >= Rank(trips[id].status)
       /\ trips'[id].status = "cancelled" => trips[id].status = "cancelled"]_vars

EndedTasks == {k \in DOMAIN tasks : tasks[k].kind = "end_trip" /\ tasks[k].pc = "done"}
StartedTasks == {k \in DOMAIN tasks : tasks[k].kind = "start_trip" /\ tasks[k].pc = "done"}
Replied(t, ev) == \E i \in DOMAIN t.out : t.out[i].ev = ev /\ t.out[i].to = {t.conn}
RepliedError(t, m) ==
  \E i \in DOMAIN t.out : t.out[i].ev = "error" /\ t.out[i].p.message = m

\* C2 (as claimed): a start_trip on a bound trip that is not owned by the
\* calling driver, or is already active or completed, yields 'Failed to start
\* trip' and leaves the trip's status and start time unchanged.
C2_StartOfStartedTripFails ==
  \A k \in StartedTasks :
    LET t == tasks[k] IN
      (/\ t.before.found
       /\ \/ t.before.row.driver_id # conns[t.conn].driverId
          \/ t.before.row.status \in {"active", "completed"})
      => /\ RepliedError(t, "Failed to start trip")
         /\ "trips" \notin t.writes

\* C3 (as claimed): of two end_trip events of one socket that both passed
\* the bound-trip check, only one update matches a row: one trip_ended per
\* completed trip, and the trip counter grows by one.
C3_SecondEndTripFails ==
  \A k1, k2 \in DOMAIN tasks :
    (/\ k1 < k2
     /\ tasks[k1].kind = "end_trip" /\ tasks[k2].kind = "end_trip"
     /\ tasks[k1].conn = tasks[k2].conn
     /\ tasks[k1].before.found /\ tasks[k2].before.found)
    => /\ ~(tasks[k1].res.found /\ tasks[k2].res.found)
       /\ drivers[conns[tasks[k1].conn].driverId].total_trips <= 1

\* Trip lifecycle next to the REST surface: a socket of driver 1, and an
\* operator who starts and cancels trips.
InitCrud ==
  /\ InitTrips(1, "active") /\ InitRest
  /\ conns = [c \in Conns |-> IF c = 1 THEN NewConn(1, "driver") ELSE Unused]

NextCrud ==
  \/ ConnStep(TRUE)
  \/ TripStep(TRUE)
  \/ \E id \in Trips : CrudStartTrip(id)
  \/ \E id \in Trips : CrudCancelTrip(id)

SpecCrud == InitCrud /\ [][NextCrud]_vars

ActiveTripsOf(v) == {id \in Trips : trips[id].vehicle_id = v /\ trips[id].status = "active"}

\* C4 (as claimed): every vehicle has at most one active trip in every
\* reachable state, the REST surface starting and cancelling trips meanwhile.
C4_OneActiveTripPerVehicle ==
  \A v \in Vehicles : Cardinality(ActiveTripsOf(v)) <= 1

\* ------------------------------------------------------------ further specs
DiscStep(ok) ==
  \/ \E c \in Conns : Disconnect(c)
  \/ \E c \in Conns : DisconnectRemoveSession(c, ok)
  \/ \E c \in Conns : DisconnectSetInactive(c, ok)

LocSteps(ok) ==
  \/ \E k \in DOMAIN tasks : LocInsertExec(k, ok)
  \/ \E k \in DOMAIN tasks : LocAfterInsert(k)
  \/ \E k \in DOMAIN tasks : cacheVehicleLocation(k, ok)
  \/ \E k \in DOMAIN tasks : publishLocationUpdate(k, ok)
  \/ \E k \in DOMAIN tasks : LocFanout(k)
  \/ \E k \in DOMAIN tasks : LocRouteExec(k, ok)
  \/ \E k \in DOMAIN tasks : LocAfterRoute(k)
  \/ \E k \in DOMAIN tasks : EtaStopsExec(k, ok)
  \/ \E k \in DOMAIN tasks : EtaAfterStops(k)
  \/ \E k \in DOMAIN tasks : cacheETA(k, ok)
  \/ \E k \in DOMAIN tasks : EtaNext(k)

EndSteps(ok) ==
  \/ \E k \in DOMAIN tasks : EndUpdateExec(k, ok)
  \/ \E k \in DOMAIN tasks : EndAfterUpdate(k)
  \/ \E k \in DOMAIN tasks : EndRemoveSession(k, ok)
  \/ \E k \in DOMAIN tasks : EndCountTrip(k, ok)
  \/ \E k \in DOMAIN tasks : EndNotify(k)

\* The payloads of location_update: a full fix, a fix with speed 0 and its
\* own timestamp, a fix without latitude, a fix on the meridian (longitude 0).
Fix(lat, lon, speed, heading, accuracy, timestamp) ==
  [latitude |-> lat, longitude |-> lon, speed |-> speed, heading |-> heading,
   accuracy |-> accuracy, timestamp |-> timestamp]

Fixes == {Fix(30, 78, 40, 90, 5, Undef), Fix(31, 78, 0, Undef, Undef, 7),
          Fix(Undef, 78, 40, 90, 5, Undef), Fix(30, 0, 40, 90, 5, Undef)}
LocFixes == {Fix(30, 78, 40, 90, 5, Undef), Fix(Undef, 78, 40, 90, 5, Undef),
             Fix(30, 0, 40, 90, 5, Undef)}

\* Connecting and disconnecting: two sockets of driver 1, in any interleaving
\* of the connection handler, the transport close and the stores.
InitConn ==
  /\ InitTrips(1, "active") /\ InitRest
  /\ conns = [c \in Conns |-> IF c = 3 THEN NewConn(4, "passenger") ELSE NewConn(1, "driver")]

NextConn ==
  \/ ConnStep(TRUE)
  \/ DiscStep(TRUE)
  \/ \E c \in Conns, room \in RouteRooms : Subscribe(c, room)
  \/ \E c \in Conns, room \in RouteRooms : Unsubscribe(c, room)

SpecConn == InitConn /\ [][NextConn]_vars

DriverOf(c) == CHOOSE d \in Drivers : d = conns[c].user

\* Nothing of the driver's sockets is in flight: every connection handler
\* has returned and every disconnect handler has returned.
Settled(d) ==
  \A c \in Conns :
    (conns[c].role = "driver" /\ conns[c].user = d)
    => /\ conns[c].hpc \in {"none", "ready", "failed"}
       /\ conns[c].dpc \in {"none", "done"}

\* C10 (as claimed): once a driver's socket has closed and its disconnect
\* handling has finished, and the driver has no other open socket (and no
\* handler of the driver is still running), no DriverSession of that driver
\* remains, a close during the connect-time lookup included.
C10_NoSessionAfterDisconnect ==
  \A c \in Conns :
    (/\ conns[c].role = "driver" /\ conns[c].user \in Drivers
     /\ conns[c].st = "closed" /\ conns[c].dpc = "done"
     /\ \A o \in Conns : conns[o].user = conns[c].user => conns[o].st # "open"
     /\ Settled(conns[c].user))
    => ~driverSession[DriverOf(c)].present

\* Location ingestion on a trip: a socket of driver 1 (vehicle 1, trip 1);
\* fixes and end_trip in any interleaving of the handlers and the stores.
InitLoc ==
  /\ InitTrips(1, "active") /\ InitRest
  /\ conns = [c \in Conns |-> IF c = 1 THEN NewConn(1, "driver") ELSE Unused]

NextLoc ==
  \/ ConnStep(TRUE)
  \/ \E c \in Conns, data \in LocFixes : handleLocationUpdate(c, data)
  \/ \E c \in Conns, data \in LocFixes : Unhandled(c, "location_update", data)
  \/ LocSteps(TRUE)
  \/ \E c \in Conns : handleTripEnd(c, [passengerCount |-> 12, distanceCovered |-> 8])
  \/ EndSteps(TRUE)

SpecLoc == InitLoc /\ [][NextLoc]_vars

LocationTasks == {k \in DOMAIN tasks : tasks[k].kind = "location_update"}
RowsOf(k) == {i \in DOMAIN vehicle_locations : vehicle_locations[i].id = k}
OnlyError(t, m) == t.pc = "done" /\ t.out = <<ErrorMsg(t.conn, m)>>

\* The event was received after an end_trip of the same socket had been
\* acknowledged with trip_ended.
AfterEnd(t) ==
  \E j \in t.prior :
    tasks[j].conn = t.conn /\ tasks[j].kind = "end_trip" /\ Replied(tasks[j], "trip_ended")

\* The connect handling of the socket is over and left it without a vehicle.
Unbound(c) ==
  conns[c].hpc \in {"ready", "failed"} /\ conns[c].vehicleId \in {Undef, Null}

\* A coordinate of the payload is missing or falsy.
BadCoordinate(data) ==
  data.latitude \in {Undef, Null, 0} \/ data.longitude \in {Undef, Null, 0}

\* C5 (as claimed): after a successful end_trip on a socket, every later
\* location_update of that socket is rejected with an error and appends no
\* LocationFix.
C5_RejectedAfterEnd ==
  \A k \in LocationTasks :
    (AfterEnd(tasks[k]) /\ tasks[k].pc = "done")
    => /\ \E i \in DOMAIN tasks[k].out : tasks[k].out[i].ev = "error"
       /\ RowsOf(k) = {}

\* C5 (amended): after a successful end_trip on a socket the vehicle binding
\* is kept and only the trip binding is cleared: a later location_update of
\* that socket never yields 'No vehicle assigned'; with both coordinates it
\* is accepted and appends one LocationFix of the bound vehicle with no trip
\* id; without one it yields 'Invalid location data' and appends nothing.
C5_AcceptedWithoutTripAfterEnd ==
  \A k \in LocationTasks :
    LET t == tasks[k] IN
      (AfterEnd(t) /\ t.pc = "done")
      => /\ ~RepliedError(t, "No vehicle assigned")
         /\ BadCoordinate(t.data) => OnlyError(t, "Invalid location data") /\ RowsOf(k) = {}
         /\ ~BadCoordinate(t.data) =>
              /\ Cardinality(RowsOf(k)) = 1
              /\ \A i \in RowsOf(k) :
                   /\ vehicle_locations[i].vehicle_id = conns[t.conn].vehicleId
                   /\ vehicle_locations[i].vehicle_id \in Vehicles
                   /\ vehicle_locations[i].trip_id = Null
              /\ \A i \in DOMAIN t.out : t.out[i].ev # "error"

C5_FixAcceptedAfterEnd ==
  \E k \in LocationTasks :
    AfterEnd(tasks[k]) /\ tasks[k].pc = "done" /\ RowsOf(k) # {}

\* Location ingestion without a trip: driver 1 (vehicle 1, its trip still
\* scheduled), driver 2 (no vehicle) and a user with the driver role and no
\* driver profile, each on one socket.
IngestSteps(ok) ==
  \/ \E k \in DOMAIN tasks : LocInsertExec(k, ok)
  \/ \E k \in DOMAIN tasks : LocAfterInsert(k)
  \/ \E k \in DOMAIN tasks : cacheVehicleLocation(k, ok)
  \/ \E k \in DOMAIN tasks : publishLocationUpdate(k, ok)
  \/ \E k \in DOMAIN tasks : LocFanout(k)

InitIngest ==
  /\ InitTrips(1, "scheduled") /\ InitRest
  /\ conns = [c \in Conns |-> NewConn(c, "driver")]

NextIngest ==
  \/ ConnStep(TRUE)
  \/ \E c \in Conns, data \in LocFixes : handleLocationUpdate(c, data)
  \/ \E c \in Conns, data \in LocFixes : Unhandled(c, "location_update", data)
  \/ IngestSteps(TRUE)

SpecIngest == InitIngest /\ [][NextIngest]_vars

\* C7 (as claimed): a location_update on a socket with no bound vehicle
\* (driver without vehicle, profile not found, or a coordinate missing as
\* well) always yields 'No vehicle assigned' and writes to no store.
C7_NoVehicleAlwaysReported ==
  \A k \in LocationTasks :
    Unbound(tasks[k].conn)
    => RepliedError(tasks[k], "No vehicle assigned") /\ tasks[k].writes = {}

\* C7 (amended): a location_update on a socket with no bound vehicle writes
\* to no store; it yields 'No vehicle assigned' and nothing else when the
\* driver handlers are registered and both coordinates are present,
\* 'Invalid location data' when a coordinate is missing or falsy, and no
\* reply at all when the handlers were not registered (profile not found).
C7_NoVehicleNoWrite ==
  \A k \in LocationTasks :
    LET t == tasks[k] IN
      Unbound(t.conn)
      => /\ t.writes = {} /\ RowsOf(k) = {}
         /\ t.pc \in {"done", "ignored"}
         /\ t.pc = "ignored" => t.out = <<>>
         /\ (t.pc = "done" /\ BadCoordinate(t.data)) => OnlyError(t, "Invalid location data")
         /\ (t.pc = "done" /\ ~BadCoordinate(t.data)) => OnlyError(t, "No vehicle assigned")

C7_NoVehicleReported ==
  \E k \in LocationTasks :
    /\ Unbound(tasks[k].conn) /\ ~BadCoordinate(tasks[k].data)
    /\ OnlyError(tasks[k], "No vehicle assigned")

\* C8 (as claimed): a location_update of a driver's socket whose latitude or
\* longitude is missing or falsy always yields 'Invalid location data' and
\* causes no store write, no publish and no fan-out.
C8_InvalidLocationReported ==
  \A k \in LocationTasks :
    LET t == tasks[k] IN
      (conns[t.conn].role = "driver" /\ BadCoordinate(t.data))
      => /\ OnlyError(t, "Invalid location data")
         /\ t.writes = {} /\ RowsOf(k) = {}

\* C8 (amended): a location_update of a driver's socket whose latitude or
\* longitude is missing or falsy causes no store write, no publish and no
\* fan-out; it yields 'Invalid location data' and nothing else when the
\* driver handlers are registered on the socket, and no reply when they are
\* not (connect handling not finished, or profile not found).
C8_InvalidLocationNoWrite ==
  \A k \in LocationTasks :
    LET t == tasks[k] IN
      (conns[t.conn].role = "driver" /\ BadCoordinate(t.data))
      => /\ t.writes = {} /\ RowsOf(k) = {}
         /\ t.pc \in {"done", "ignored"}
         /\ t.pc = "done" => OnlyError(t, "Invalid location data")
         /\ t.pc = "ignored" => t.out = <<>>

C8_InvalidLocationRejected ==
  \E k \in LocationTasks :
    /\ tasks[k].data.longitude = 0 /\ conns[tasks[k].conn].vehicleId = 1
    /\ OnlyError(tasks[k], "Invalid location data")

\* Fixes one at a time: a socket of driver 1 whose location_update is
\* received only when no location_update handler is running; end_trip is
\* free to arrive at any moment.
FixIdle == \A k \in LocationTasks : tasks[k].pc \in {"done", "ignored"}

InitFix ==
  /\ InitTrips(1, "active") /\ InitRest
  /\ conns = [c \in Conns |-> IF c = 1 THEN NewConn(1, "driver") ELSE Unused]

NextFix ==
  \/ ConnStep(TRUE)
  \/ FixIdle /\ \E c \in Conns, data \in Fixes : handleLocationUpdate(c, data)
  \/ LocSteps(TRUE)
  \/ \E c \in Conns : handleTripEnd(c, [passengerCount |-> 12, distanceCovered |-> 8])
  \/ EndSteps(TRUE)

SpecFix == InitFix /\ [][NextFix]_vars

AcceptedFixes ==
  {k \in LocationTasks : /\ tasks[k].pc = "done"
                         /\ ~BadCoordinate(tasks[k].data)
                         /\ conns[tasks[k].conn].vehicleId \in Vehicles}

\* C9 (as claimed): fixes being handled one at a time and the stores
\* succeeding, after each valid fix of a socket with a bound vehicle one
\* LocationFix has been appended for it and the CachedLocation of the
\* vehicle holds the fix's latitude, longitude, speed, heading and accuracy
\* and the trip id of that LocationFix.
C9_CacheHoldsLatestFix ==
  \A k \in AcceptedFixes :
    (FixIdle /\ \A j \in AcceptedFixes : j <= k)
    => LET t == tasks[k]
           cached == vehicleLocation[conns[t.conn].vehicleId] IN
         /\ Cardinality(RowsOf(k)) = 1
         /\ cached.found
         /\ cached.data.latitude = t.data.latitude
         /\ cached.data.longitude = t.data.longitude
         /\ cached.data.speed = t.data.speed
         /\ cached.data.heading = t.data.heading
         /\ cached.data.accuracy = t.data.accuracy
         /\ \A i \in RowsOf(k) :
              vehicle_locations[i].trip_id =
                (IF cached.data.tripId = Undef THEN Null ELSE cached.data.tripId)

OrZero(x) == IF x \in {Undef, Null, 0} THEN 0 ELSE x
StatusUpdates(t) ==
  {i \in DOMAIN t.out : t.out[i].ev = "trip_status_update" /\ t.out[i].p.status = "completed"}

\* C6: the steps of a successful end_trip {passengerCount p, distanceCovered
\* d} of driver D on bound trip T of route R: the update leaves T completed
\* with passenger_count p and distance_covered d (0 when omitted), the
\* DriverSession of D is deleted, D's total_trips grows by exactly 1, and the
\* last step clears the socket's trip binding, acknowledges with trip_ended
\* and sends exactly one trip_status_update 'completed' to every open member
\* of route:R other than the driver's socket.
C6_EndTripEffects ==
  [][\A k \in DOMAIN tasks :
       LET t == tasks[k]
           u == tasks'[k]
           c == t.conn
           D == conns[c].driverId
           T == t.args.tripId IN
         t.kind = "end_trip" =>
           /\ (t.pc = "end_update" /\ u.pc = "end_updated" /\ u.res.found) =>
                /\ trips[T].driver_id = D
                /\ trips'[T].status = "completed"
                /\ trips'[T].passenger_count = OrZero(t.data.passengerCount)
                /\ trips'[T].distance_covered = OrZero(t.data.distanceCovered)
           /\ (t.pc = "end_remove" /\ u.pc = "end_count") => ~driverSession'[D].present
           /\ (t.pc = "end_count" /\ u.pc = "end_notify") =>
                drivers'[D].total_trips = drivers[D].total_trips + 1
           /\ (t.pc = "end_notify" /\ u.pc = "done") =>
                /\ conns'[c].tripId = Null
                /\ Replied(u, "trip_ended")
                /\ u.writes = {"trips", "driverSession", "drivers"}
                /\ Cardinality(StatusUpdates(u)) = 1
                /\ \A i \in StatusUpdates(u) :
                     u.out[i].to = {o \in Conns \ {c} :
                                      /\ conns[o].st = "open"
                                      /\ Room("route", u.res.row.route_id) \in conns[o].rooms}
           /\ (t.pc # "done" /\ u.pc = "done" /\ t.pc # "end_notify") =>
                ~Replied(u, "trip_ended")]_vars

C6_TripEnded ==
  \E k \in EndedTasks :
    /\ Replied(tasks[k], "trip_ended")
    /\ tasks[k].data.passengerCount = 12
    /\ drivers[1].total_trips = 1
    /\ ~driverSession[1].present
    /\ \E i \in StatusUpdates(tasks[k]) : tasks[k].out[i].to = {2}

\* ------------------------------------------------------------- fan-out
\* Fan-out of a fix: driver 1 on trip 1, here a trip of route 2, sends fixes
\* one after the other while a passenger and an admin subscribe to and
\* unsubscribe from the route rooms at any moment.
GoodFix == Fix(30, 78, 40, 90, 5, Undef)

InitFan ==
  /\ trips = [t \in Trips |-> IF t = 1 THEN NewTrip(1, 1, 2, "active")
                              ELSE NewTrip(1, 1, 1, "scheduled")]
  /\ InitRest
  /\ conns = [c \in Conns |-> CASE c = 1 -> NewConn(1, "driver")
                                [] c = 2 -> NewConn(4, "passenger")
                                [] OTHER -> NewConn(5, "admin")]

NextFan ==
  \/ ConnStep(TRUE)
  \/ FixIdle /\ \E c \in Conns : handleLocationUpdate(c, GoodFix)
  \/ LocSteps(TRUE)
  \/ \E c \in Conns, room \in RouteRooms : Subscribe(c, room)
  \/ \E c \in Conns, room \in RouteRooms : Unsubscribe(c, room)

SpecFan == InitFan /\ [][NextFan]_vars

\* The messages of one kind an invocation has sent, and the open sockets in
\* a room other than socket c.
Sent(t, ev) == {i \in DOMAIN t.out : t.out[i].ev = ev}
Members(room, c) ==
  {o \in Conns \ {c} : conns[o].st = "open" /\ room \in conns[o].rooms}

\* C11: a fix whose handler finds the socket bound to a trip of route R
\* sends route_vehicle_update once, at the step after the route lookup, to
\* exactly the sockets that are members of route:R at that moment, the
\* sender excepted; no other step sends one, and a finished fix that found
\* the trip bound has sent exactly one.
C11_RouteUpdateToMembersOnly ==
  [][\A k \in DOMAIN tasks :
       LET t == tasks[k]
           u == tasks'[k] IN
         t.kind = "location_update" =>
           /\ (t.pc = "loc_routed" /\ u.pc # "loc_routed") =>
                /\ Cardinality(Sent(u, "route_vehicle_update")) = 1
                /\ \A i \in Sent(u, "route_vehicle_update") :
                     /\ u.out[i].to = Members(Room("route", trips[t.tripId].route_id), t.conn)
                     /\ u.out[i].p.routeId = trips[t.tripId].route_id
           /\ t.pc # "loc_routed" =>
                Sent(u, "route_vehicle_update") = Sent(t, "route_vehicle_update")
           /\ (u.pc = "done" /\ u.tripId \in Trips) =>
                Cardinality(Sent(u, "route_vehicle_update")) = 1]_vars

\* A finished fix whose route_vehicle_update reached the passenger, a member
\* of route:2, and not the admin, who was not a member.
C11_RouteUpdateDelivered ==
  \E k \in DOMAIN tasks :
    /\ tasks[k].kind = "location_update" /\ tasks[k].pc = "done"
    /\ \E i \in Sent(tasks[k], "route_vehicle_update") : tasks[k].out[i].to = {2}
    /\ conns[3].st = "open" /\ Room("route", 1) \in conns[3].rooms

\* ------------------------------------------------------------ store faults
\* The steps of a fix with PostgreSQL answering (pg) or rejecting its
\* statements and Redis executing (rd) or failing its commands.
LocFaultSteps(pg, rd) ==
  \/ \E k \in DOMAIN tasks : LocInsertExec(k, pg)
  \/ \E k \in DOMAIN tasks : LocAfterInsert(k)
  \/ \E k \in DOMAIN tasks : cacheVehicleLocation(k, rd)
  \/ \E k \in DOMAIN tasks : publishLocationUpdate(k, rd)
  \/ \E k \in DOMAIN tasks : LocFanout(k)
  \/ \E k \in DOMAIN tasks : LocRouteExec(k, pg)
  \/ \E k \in DOMAIN tasks : LocAfterRoute(k)
  \/ \E k \in DOMAIN tasks : EtaStopsExec(k, pg)
  \/ \E k \in DOMAIN tasks : EtaAfterStops(k)
  \/ \E k \in DOMAIN tasks : cacheETA(k, rd)
  \/ \E k \in DOMAIN tasks : EtaNext(k)

\* Driver 1 with vehicle 1, trip 1 (route 2) active or still scheduled, a
\* passenger who may join route:2 and vehicle:1, and an admin.
InitFault ==
  /\ \E s \in {"active", "scheduled"} :
       trips = [t \in Trips |-> IF t = 1 THEN NewTrip(1, 1, 2, s)
                                ELSE NewTrip(1, 1, 1, "scheduled")]
  /\ InitRest
  /\ conns = [c \in Conns |-> CASE c = 1 -> NewConn(1, "driver")
                                [] c = 2 -> NewConn(4, "passenger")
                                [] OTHER -> NewConn(5, "admin")]

FaultRooms == {Room("route", 2), Room("vehicle", 1)}

\* Fixes one after the other, any statement of PostgreSQL and any command of
\* Redis failing or not; the faults multiply the histories of a fix, so one
\* fix fewer than MaxTasks is received.
NextFault ==
  \/ ConnStep(TRUE)
  \/ /\ FixIdle /\ Len(tasks) + 1 < MaxTasks
     /\ \E c \in Conns : handleLocationUpdate(c, GoodFix)
  \/ \E pg \in BOOLEAN, rd \in BOOLEAN : LocFaultSteps(pg, rd)
  \/ \E room \in FaultRooms : Subscribe(2, room)

SpecFault == InitFault /\ [][NextFault]_vars

\* C12 (as claimed): every fix that passed validation and whose insert
\* succeeded sends exactly one vehicle_location_update to the admin room,
\* with or without a bound trip and whether or not the route lookup
\* succeeds.
C12_AdminAlwaysNotified ==
  \A k \in LocationTasks :
    (tasks[k].pc = "done" /\ "vehicle_locations" \in tasks[k].writes)
    => Cardinality(Sent(tasks[k], "vehicle_location_update")) = 1

SessionStores == {"vehicleLocation", "published", "etaCache", "driverSession", "activeTrip"}

\* C13: a valid fix of a socket with a bound vehicle, every Redis command of
\* which failed while PostgreSQL answered: its LocationFix is recorded, the
\* vehicle room and the admin room, and the route room when a trip is bound,
\* have each been sent their update once, and no error event was emitted.
C13_SessionStoreFailuresIgnored ==
  \A k \in LocationTasks :
    LET t == tasks[k] IN
      (/\ t.pc = "done" /\ ~BadCoordinate(t.data)
       /\ conns[t.conn].vehicleId \in Vehicles
       /\ ~t.threw /\ t.writes \cap SessionStores = {})
      => /\ Cardinality(RowsOf(k)) = 1
         /\ Cardinality(Sent(t, "location_update")) = 1
         /\ Cardinality(Sent(t, "vehicle_location_update")) = 1
         /\ conns[t.conn].tripId \in Trips => Cardinality(Sent(t, "route_vehicle_update")) = 1
         /\ Sent(t, "error") = {}

\* Redis failed throughout a fix of the driver on trip 1, and the passenger
\* in vehicle:1 and route:2 and the admin were sent their updates.
C13_FanoutWithoutRedis ==
  \E k \in LocationTasks :
    LET t == tasks[k] IN
      /\ t.pc = "done" /\ ~t.threw /\ t.writes = {"vehicle_locations"}
      /\ Len(t.rows) > 0
      /\ \E i \in Sent(t, "location_update") : t.out[i].to = {2}
      /\ \E i \in Sent(t, "route_vehicle_update") : t.out[i].to = {2}
      /\ \E i \in Sent(t, "vehicle_location_update") : t.out[i].to = {3}

\* The stops query of the ETA computation of a fix was rejected: the only
\* statement that can fail once the admin room has been notified.
StopLookupFailed(t) ==
  t.threw /\ Sent(t, "vehicle_location_update") # {}

\* No cacheETA of the fix was stored although a batch was computed.
EtaCacheFailed(t) ==
  ~t.threw /\ Len(t.rows) > 0 /\ "etaCache" \notin t.writes

FixDelivered(k) ==
  LET t == tasks[k] IN
    /\ Cardinality(RowsOf(k)) = 1
    /\ Cardinality(Sent(t, "location_update")) = 1
    /\ Cardinality(Sent(t, "vehicle_location_update")) = 1
    /\ Cardinality(Sent(t, "route_vehicle_update")) = 1
    /\ Sent(t, "error") = {}

\* C15 (as stated): when the stop lookup or any other step of the ETA
\* computation fails, no eta_update and no error is emitted and the fix and
\* its fan-out stand.
C15_EtaFailureSilent ==
  \A k \in LocationTasks :
    LET t == tasks[k] IN
      (t.pc = "done" /\ (StopLookupFailed(t) \/ EtaCacheFailed(t)))
      => FixDelivered(k) /\ Sent(t, "eta_update") = {}

\* C15 (amended): a failed stop lookup gives no eta_update and no error and
\* leaves the fix and its fan-out; a failed cacheETA is ignored as well, but
\* the eta_update with the whole batch is still emitted.
C15_EtaFailureContained ==
  \A k \in LocationTasks :
    LET t == tasks[k] IN
      /\ (t.pc = "done" /\ StopLookupFailed(t))
         => FixDelivered(k) /\ Sent(t, "eta_update") = {}
      /\ (t.pc = "done" /\ EtaCacheFailed(t))
         => /\ FixDelivered(k)
            /\ Cardinality(Sent(t, "eta_update")) = 1
            /\ \A i \in Sent(t, "eta_update") : Len(t.out[i].p.etas) = Len(t.rows)

\* One finished fix whose stop lookup failed, or whose batch was sent to the
\* passengers room with no ETA cached.
C15_EtaFailureSeen ==
  \E k \in LocationTasks :
    LET t == tasks[k] IN
      /\ t.pc = "done"
      /\ \/ StopLookupFailed(t) /\ "vehicle_locations" \in t.writes
         \/ EtaCacheFailed(t) /\ \E i \in Sent(t, "eta_update") : t.out[i].to = {2, 3}

\* ---------------------------------------------------- failing driver handlers
\* No handler invocation is in flight.
Idle == \A k \in DOMAIN tasks : tasks[k].pc \in {"done", "ignored"}

\* The steps of the four driver handlers, the PostgreSQL statements
\* succeeding or not as pg says, the Redis commands succeeding.
HandlerSteps(pg) ==
  \/ \E k \in DOMAIN tasks : StartUpdateExec(k, pg)
  \/ \E k \in DOMAIN tasks : StartAfterUpdate(k)
  \/ \E k \in DOMAIN tasks : setActiveTripData(k, TRUE)
  \/ \E k \in DOMAIN tasks : StartNotify(k)
  \/ \E k \in DOMAIN tasks : EndUpdateExec(k, pg)
  \/ \E k \in DOMAIN tasks : EndAfterUpdate(k)
  \/ \E k \in DOMAIN tasks : EndRemoveSession(k, TRUE)
  \/ \E k \in DOMAIN tasks : EndCountTrip(k, pg)
  \/ \E k \in DOMAIN tasks : EndNotify(k)
  \/ \E k \in DOMAIN tasks : CountUpdateExec(k, pg)
  \/ \E k \in DOMAIN tasks : CountAfterUpdate(k)
  \/ \E k \in DOMAIN tasks : CountUpsertExec(k, pg)
  \/ \E k \in DOMAIN tasks : CountNotify(k)
  \/ LocFaultSteps(pg, TRUE)

\* Driver 1 with active trip 1 on route 2 and a passenger.
InitHandlers ==
  /\ trips = [t \in Trips |-> IF t = 1 THEN NewTrip(1, 1, 2, "active")
                                        ELSE NewTrip(1, 1, 1, "scheduled")]
  /\ InitRest
  /\ conns = [c \in Conns |-> IF c = 1 THEN NewConn(1, "driver")
                              ELSE IF c = 2 THEN NewConn(4, "passenger")
                              ELSE Unused]

\* The driver's events one after the other, any PostgreSQL statement of
\* their handlers failing or not.
NextHandlers ==
  \/ ConnStep(TRUE)
  \/ Idle /\ \E c \in Conns : handleLocationUpdate(c, GoodFix)
  \/ Idle /\ \E c \in Conns : handleTripStart(c)
  \/ Idle /\ \E c \in Conns : handleTripEnd(c, [passengerCount |-> 12, distanceCovered |-> 8])
  \/ Idle /\ \E c \in Conns, data \in CountData : handlePassengerCountUpdate(c, data)
  \/ \E c \in Conns : Unhandled(c, "start_trip", Undef)
  \/ \E pg \in BOOLEAN : HandlerSteps(pg)

SpecHandlers == InitHandlers /\ [][NextHandlers]_vars

\* C14: an error event of a driver handler goes to the sending socket alone;
\* a handler whose PostgreSQL statement failed (the stops query of the ETA
\* computation apart) has emitted one, its socket is still open with its
\* handlers registered, and no later event of that socket is discarded.
C14_ErrorsStayWithSender ==
  \A k \in DOMAIN tasks :
    LET t == tasks[k] IN
      /\ \A i \in Sent(t, "error") : t.out[i].to = {t.conn}
      /\ (t.threw /\ t.pc = "done" /\ Sent(t, "vehicle_location_update") = {})
         => Cardinality(Sent(t, "error")) = 1
      /\ t.threw => conns[t.conn].st = "open" /\ conns[t.conn].hpc = "ready"
      /\ \A j \in t.prior :
           (tasks[j].conn = t.conn /\ tasks[j].threw) => t.pc # "ignored"

\* A handler of the driver failed and reported it, and the driver's next
\* event was handled to its end, the passenger being connected.
C14_HandledAfterFailure ==
  \E k \in DOMAIN tasks : \E j \in tasks[k].prior :
    /\ tasks[j].conn = tasks[k].conn /\ tasks[j].threw
    /\ Sent(tasks[j], "error") # {}
    /\ tasks[k].pc = "done" /\ ~tasks[k].threw /\ tasks[k].writes # {}
    /\ conns[2].st = "open"

\* ------------------------------------------------------------- ETA batches
\* passenger_count_update payloads that record an arrival: at stop 1, which
\* route 2 also calls at, at stop 3 and at the last stop of route 1.
StopCounts == {[count |-> 9, stopId |-> s] : s \in {1, 3, 6}}

CountSteps(ok) ==
  \/ \E k \in DOMAIN tasks : CountUpdateExec(k, ok)
  \/ \E k \in DOMAIN tasks : CountAfterUpdate(k)
  \/ \E k \in DOMAIN tasks : CountUpsertExec(k, ok)
  \/ \E k \in DOMAIN tasks : CountNotify(k)

\* Driver 1 whose trip 1 on route 1 is active or not yet started, and a
\* passenger.
InitEta ==
  /\ \E s \in {"active", "scheduled"} : InitTrips(1, s)
  /\ InitRest
  /\ conns = [c \in Conns |-> IF c = 1 THEN NewConn(1, "driver")
                              ELSE IF c = 2 THEN NewConn(4, "passenger")
                              ELSE Unused]

\* Fixes one after the other, arrivals recorded at any moment, the stores
\* succeeding.
NextEta ==
  \/ ConnStep(TRUE)
  \/ FixIdle /\ \E c \in Conns : handleLocationUpdate(c, GoodFix)
  \/ LocSteps(TRUE)
  \/ \E c \in Conns, data \in StopCounts : handlePassengerCountUpdate(c, data)
  \/ CountSteps(TRUE)

SpecEta == InitEta /\ [][NextEta]_vars

\* The stop orders, on the trip's own route, of the stops the trip has a
\* recorded arrival at, and the highest of them (0 when there is none).
ArrivedOrders(trip) ==
  {rs.stop_order : rs \in {r \in route_stops :
      /\ r.route_id = trips[trip].route_id
      /\ trip_stops[trip][r.bus_stop_id].found
      /\ trip_stops[trip][r.bus_stop_id].actual_arrival # Null}}

HighestArrived(trip) ==
  IF ArrivedOrders(trip) = {} THEN 0
  ELSE CHOOSE m \in ArrivedOrders(trip) : \A o \in ArrivedOrders(trip) : o <= m

OwnOrder(trip, stop) ==
  (CHOOSE r \in route_stops :
     r.route_id = trips[trip].route_id /\ r.bus_stop_id = stop).stop_order

OnOwnRoute(trip, stop) ==
  \E r \in route_stops : r.route_id = trips[trip].route_id /\ r.bus_stop_id = stop

BatchStops(t, i) == [j \in 1..Len(t.out[i].p.etas) |-> t.out[i].p.etas[j].stopId]

UpcomingStops(trip) ==
  LET next == Limit(OrderBy({r \in route_stops :
                               /\ r.route_id = trips[trip].route_id
                               /\ r.stop_order > HighestArrived(trip)}), 5)
  IN [j \in 1..Len(next) |-> next[j].bus_stop_id]

\* C17: the batch the stops query returns for a trip is exactly the first
\* (up to 5) stops of the trip's own route, ascending, whose stop order is
\* above the highest stop order on that route among the trip's arrivals.
C17_BatchIsNextStopsOfRoute ==
  [][\A k \in DOMAIN tasks :
       LET t == tasks[k]
           u == tasks'[k] IN
         (t.pc = "eta_stops" /\ u.pc = "eta_rows") =>
           [j \in 1..Len(u.rows) |-> u.rows[j].id] = UpcomingStops(t.tripId)]_vars

\* The members of the passengers room, the sender excepted.
Observers(c) == Members(Room("passengers", 0), c)

\* C18: a fix sends eta_update at most once; it is sent at the step that
\* ends a loop over a non-empty batch of a bound trip, carries the whole
\* batch, and goes to the members of the passengers room at that moment,
\* the sender excepted; a finished fix that found no trip bound or no
\* candidate stop has sent none, any other has sent one.
C18_OneEtaUpdatePerFix ==
  [][\A k \in DOMAIN tasks :
       LET t == tasks[k]
           u == tasks'[k] IN
         /\ Cardinality(Sent(u, "eta_update")) <= 1
         /\ Sent(u, "eta_update") # Sent(t, "eta_update") =>
              /\ t.pc = "eta_cached" /\ u.pc = "done"
              /\ t.tripId \in Trips /\ Len(t.rows) > 0
              /\ \A i \in Sent(u, "eta_update") :
                   /\ u.out[i].to = Observers(t.conn)
                   /\ Len(u.out[i].p.etas) = Len(t.rows)
                   /\ BatchStops(u, i) = [j \in 1..Len(t.rows) |-> t.rows[j].id]
                   /\ u.out[i].p.vehicleId = conns[t.conn].vehicleId
                   /\ u.out[i].p.tripId = t.tripId
         /\ (u.kind = "location_update" /\ u.pc = "done") =>
              (Sent(u, "eta_update") # {}
                 <=> (Sent(u, "location_update") # {} /\ u.tripId \in Trips /\ Len(u.rows) > 0))]_vars

\* A finished fix of the driver on trip 1 whose eta_update, with the five
\* stops of its batch, reached the passenger.
C18_EtaUpdateDelivered ==
  \E k \in LocationTasks :
    /\ tasks[k].pc = "done" /\ Len(tasks[k].rows) = 5
    /\ \E i \in Sent(tasks[k], "eta_update") :
         tasks[k].out[i].to = {2} /\ Len(tasks[k].out[i].p.etas) = 5

\* ------------------------------------------------------- connection gateway
Tokens == {SignedToken, ForgedToken, Undef}

\* Socket 1 presents a driver's token, socket 2 a passenger's or an
\* operator's, socket 3 an admin's; each token is signed, forged or missing.
InitGate ==
  /\ trips = [t \in Trips |-> IF t = 1 THEN NewTrip(1, 1, 2, "active")
                                        ELSE NewTrip(1, 1, 1, "scheduled")]
  /\ InitRest
  /\ \E r \in {"passenger", "operator"}, tok \in [Conns -> Tokens] :
       conns = [c \in Conns |->
                  [NewConn(IF c = 1 THEN 1 ELSE c + 2,
                           IF c = 1 THEN "driver" ELSE IF c = 2 THEN r ELSE "admin")
                   EXCEPT !.token = tok[c]]]

\* Every socket may try to connect and may send any event at any moment.
NextGate ==
  \/ ConnStep(TRUE)
  \/ \E c \in Conns : ConnectRefused(c)
  \/ \E c \in Conns, room \in FaultRooms : Subscribe(c, room)
  \/ /\ FixIdle /\ Len(tasks) + 1 < MaxTasks
     /\ \E c \in Conns : handleLocationUpdate(c, GoodFix)
  \/ \E c \in Conns : Unhandled(c, "location_update", GoodFix)
  \/ LocSteps(TRUE)

SpecGate == InitGate /\ [][NextGate]_vars

Unauthenticated(c) == conns[c].token # SignedToken

\* C19: a socket whose token is missing or not verifiable is never
\* connected: it is in no room, has no handler registered, was sent nothing,
\* and no handler invocation, dropped or not, stems from it.
C19_NoTokenNoConnection ==
  \A c \in Conns :
    Unauthenticated(c) =>
      /\ conns[c].st \in {"idle", "refused"}
      /\ conns[c].rooms = {} /\ conns[c].hpc = "none"
      /\ conns[c].out = <<>>
      /\ \A k \in DOMAIN tasks :
           /\ tasks[k].conn # c
           /\ \A i \in DOMAIN tasks[k].out : c \notin tasks[k].out[i].to

\* The admin's socket was refused for its token while the driver's fix was
\* handled and fanned out.
C19_RefusedWhileServing ==
  /\ Unauthenticated(3) /\ conns[3].st = "refused"
  /\ \E k \in LocationTasks :
       tasks[k].pc = "done" /\ Sent(tasks[k], "vehicle_location_update") # {}

\* ----------------------------------------------------------- room membership
\* The ids a passenger or admin may put in subscribe_route and
\* subscribe_vehicle, known or not.
AnyIds == {0, 99}

\* Three sockets with verified tokens: each carries the role of its user or
\* a role the hub does not know.
InitRooms ==
  /\ trips = [t \in Trips |-> IF t = 1 THEN NewTrip(1, 1, 2, "active")
                                        ELSE NewTrip(1, 1, 1, "scheduled")]
  /\ InitRest
  /\ \E r \in [Conns -> BOOLEAN] :
       conns = [c \in Conns |->
                  NewConn(IF c = 1 THEN 1 ELSE c + 2,
                          IF r[c] THEN "operator"
                          ELSE IF c = 1 THEN "driver"
                          ELSE IF c = 2 THEN "passenger" ELSE "admin")]

\* Connections, disconnections, and subscriptions with any id at any moment.
NextRooms ==
  \/ ConnStep(TRUE)
  \/ DiscStep(TRUE)
  \/ \E c \in Conns, kind \in {"route", "vehicle"}, id \in AnyIds : Subscribe(c, Room(kind, id))
  \/ \E c \in Conns, kind \in {"route", "vehicle"}, id \in AnyIds : Unsubscribe(c, Room(kind, id))

SpecRooms == InitRooms /\ [][NextRooms]_vars

\* C20: the admin room holds sockets of role admin only, the passengers room
\* sockets of role passenger or admin only, a socket of a role other than
\* driver, passenger and admin is in no room, and no subscription step puts
\* a socket into the admin room or the passengers room.
C20_RoomsByRole ==
  [][\A c \in Conns :
       /\ Room("admin", 0) \in conns'[c].rooms => conns'[c].role = "admin"
       /\ Room("passengers", 0) \in conns'[c].rooms => conns'[c].role \in {"passenger", "admin"}
       /\ conns'[c].role \notin {"driver", "passenger", "admin"} => conns'[c].rooms = {}
       /\ conns[c].st = "open" =>
            \A room \in {Room("admin", 0), Room("passengers", 0)} :
              room \in conns'[c].rooms => room \in conns[c].rooms]_vars

\* The passenger subscribed to route 0 and vehicle 0 and is in the
\* passengers room only besides, while a socket of an unknown role is open.
C20_SubscribedWithAnyId ==
  /\ conns[2].role = "passenger"
  /\ conns[2].rooms = {Room("passengers", 0), Room("route", 0), Room("vehicle", 0)}
  /\ conns[3].role = "operator" /\ conns[3].st = "open"

\* ------------------------------------------------ two sockets of one driver
\* Driver 1 on sockets 1 and 2, with active trip 1 on route 2, and a
\* passenger who may subscribe to vehicle:1.
InitDriver ==
  /\ trips = [t \in Trips |-> IF t = 1 THEN NewTrip(1, 1, 2, "active")
                                        ELSE NewTrip(1, 1, 1, "scheduled")]
  /\ InitRest
  /\ conns = [c \in Conns |-> IF c = 3 THEN NewConn(4, "passenger") ELSE NewConn(1, "driver")]

\* The sockets connect at any moment; the driver's events are handled one
\* after the other, the stores succeeding.
\* The passenger counts a driver reports, with and without a stop.
DriverCounts == {[count |-> 7, stopId |-> Undef], [count |-> 7, stopId |-> 2]}

NextDriver ==
  \/ ConnStep(TRUE)
  \/ Subscribe(3, Room("vehicle", 1))
  \/ Idle /\ \E c \in Conns : handleLocationUpdate(c, GoodFix)
  \/ Idle /\ \E c \in Conns, data \in DriverCounts : handlePassengerCountUpdate(c, data)
  \/ LocSteps(TRUE)
  \/ CountSteps(TRUE)

SpecDriver == InitDriver /\ [][NextDriver]_vars

DriversIn(room) ==
  {c \in Conns : conns[c].role = "driver" /\ conns[c].st = "open" /\ room \in conns[c].rooms}

\* C21 (as claimed): every vehicle room holds at most one driver socket, and
\* no location_update or passenger_count_update of a fan-out is handed to a
\* driver socket.
C21_OneDriverPerVehicleRoom ==
  /\ \A v \in Vehicles : Cardinality(DriversIn(Room("vehicle", v))) <= 1
  /\ \A k \in DOMAIN tasks :
       \A i \in Sent(tasks[k], "location_update") \cup Sent(tasks[k], "passenger_count_update") :
         \A o \in tasks[k].out[i].to : conns[o].role # "driver"

\* ------------------------------------------------- closing a driver's socket
\* Driver 1 on one socket, with active trip 1 on route 2.
InitClose ==
  /\ trips = [t \in Trips |-> IF t = 1 THEN NewTrip(1, 1, 2, "active")
                                        ELSE NewTrip(1, 1, 1, "scheduled")]
  /\ InitRest
  /\ conns = [c \in Conns |-> IF c = 1 THEN NewConn(1, "driver") ELSE Unused]

\* The socket closes at any moment; the driver's events are handled one
\* after the other, the stores succeeding.
NextClose ==
  \/ ConnStep(TRUE)
  \/ DiscStep(TRUE)
  \/ Idle /\ \E c \in Conns : handleLocationUpdate(c, GoodFix)
  \/ Idle /\ \E c \in Conns : handleTripEnd(c, [passengerCount |-> 12, distanceCovered |-> 8])
  \/ Idle /\ \E c \in Conns, data \in DriverCounts : handlePassengerCountUpdate(c, data)
  \/ LocSteps(TRUE)
  \/ EndSteps(TRUE)
  \/ CountSteps(TRUE)

SpecClose == InitClose /\ [][NextClose]_vars

\* The step is one of the close of socket c or of its handleDisconnection.
ClosingStep(c) ==
  \/ conns'[c].st # conns[c].st /\ conns'[c].st = "closed"
  \/ conns'[c].dpc # conns[c].dpc

EndTripTasks == {k \in DOMAIN tasks : tasks[k].kind = "end_trip"}

\* C22: no step of the close of a driver socket or of its disconnect handler
\* changes a trip; a trip becomes completed only in a step of the handler of
\* an end_trip event, so a trip for which none was received stays active
\* with no end time.
C22_DisconnectLeavesTrips ==
  [][/\ \A c \in Conns : ClosingStep(c) => trips' = trips
     /\ \A id \in Trips :
          (trips[id].status # "completed" /\ trips'[id].status = "completed")
          => \E k \in EndTripTasks : tasks'[k] # tasks[k] /\ tasks[k].args.tripId = id
     /\ EndTripTasks = {} =>
          /\ trips'[1].status = "active" /\ trips'[1].actual_start_time = 0
          /\ trips'[1].actual_end_time = Null /\ trips'[1].distance_covered = Null]_vars

\* The driver's socket closed while trip 1 was active, its disconnect handler
\* is over, a fix had been handled, and trip 1 is still active.
C22_ClosedDuringTrip ==
  /\ conns[1].st = "closed" /\ conns[1].dpc = "done"
  /\ drivers[1].status = "inactive" /\ ~driverSession[1].present
  /\ trips[1].status = "active"
  /\ \E k \in LocationTasks : tasks[k].pc = "done" /\ "vehicle_locations" \in tasks[k].writes

\* ------------------------------------------------------- the bound trip
\* Payloads that name trip 2, which the socket is never bound to.
NamedEnd == [passengerCount |-> 12, distanceCovered |-> 8, tripId |-> 2]
NamedCount == [count |-> 7, stopId |-> 2, tripId |-> 2]

\* Driver 1 whose trip 1 is active (bound at connection) or still scheduled
\* (no trip bound), and a passenger.
InitBound ==
  /\ \E s \in {"active", "scheduled"} : InitTrips(1, s)
  /\ InitRest
  /\ conns = [c \in Conns |-> IF c = 1 THEN NewConn(1, "driver")
                              ELSE IF c = 2 THEN NewConn(4, "passenger")
                              ELSE Unused]

\* start_trip, end_trip and passenger_count_update at any moment, their
\* handlers interleaving, the stores succeeding.
NextBound ==
  \/ ConnStep(TRUE)
  \/ Subscribe(2, Room("vehicle", 1))
  \/ \E c \in Conns : handleTripStart(c)
  \/ \E c \in Conns : handleTripEnd(c, NamedEnd)
  \/ \E c \in Conns : handlePassengerCountUpdate(c, NamedCount)
  \/ \E k \in DOMAIN tasks : StartUpdateExec(k, TRUE)
  \/ \E k \in DOMAIN tasks : StartAfterUpdate(k)
  \/ \E k \in DOMAIN tasks : setActiveTripData(k, TRUE)
  \/ \E k \in DOMAIN tasks : StartNotify(k)
  \/ EndSteps(TRUE)
  \/ CountSteps(TRUE)

SpecBound == InitBound /\ [][NextBound]_vars

TripEvents == {"start_trip", "end_trip", "passenger_count_update"}

\* The trip id an event's payload carries, if any.
Named(t) == IF t.kind = "start_trip" THEN Undef ELSE t.data.tripId

Counts == {[count |-> 7, stopId |-> 2], [count |-> 9, stopId |-> 2],
           [count |-> 5, stopId |-> Undef]}

\* Driver 1 on one socket, with active trip 1.
InitCount ==
  /\ InitTrips(1, "active") /\ InitRest
  /\ conns = [c \in Conns |-> IF c = 1 THEN NewConn(1, "driver") ELSE Unused]

\* passenger_count_update events at any moment, the stores succeeding.
NextCount ==
  \/ ConnStep(TRUE)
  \/ \E c \in Conns, data \in Counts : handlePassengerCountUpdate(c, data)
  \/ CountSteps(TRUE)

SpecCount == InitCount /\ [][NextCount]_vars

\* The passenger_count_update events that were handled for a bound trip.
CountTasks ==
  {k \in DOMAIN tasks : tasks[k].kind = "passenger_count_update" /\ "trips" \in tasks[k].writes}

Last(S) == CHOOSE k \in S : \A j \in S : j <= k

\* C24 (as claimed): once the handlers of the passenger_count_update events
\* of trip 1 are over, the trip's passenger_count is the count of the last
\* event handled, and the boarded count of a stop is the count of the last
\* event handled that named the stop.
C24_LastCountWins ==
  (Idle /\ CountTasks # {}) =>
    /\ trips[1].passenger_count = Param(tasks[Last(CountTasks)].data.count)
    /\ \A s \in Stops :
         LET named == {k \in CountTasks : tasks[k].data.stopId = s} IN
           named # {} =>
             /\ trip_stops[1][s].found
             /\ trip_stops[1][s].passengers_boarded = Param(tasks[Last(named)].data.count)

\* ------------------------------------------------------------ subscriptions
\* Driver 1 with active trip 1 on route 2, and a passenger.
InitSubs ==
  /\ trips = [t \in Trips |-> IF t = 1 THEN NewTrip(1, 1, 2, "active")
                                        ELSE NewTrip(1, 1, 1, "scheduled")]
  /\ InitRest
  /\ conns = [c \in Conns |-> IF c = 1 THEN NewConn(1, "driver")
                              ELSE IF c = 2 THEN NewConn(4, "passenger")
                              ELSE Unused]

\* The passenger subscribes to and unsubscribes from route:2 and vehicle:1
\* and closes at any moment, the driver's fixes being handled meanwhile.
NextSubs ==
  \/ ConnStep(TRUE)
  \/ DiscStep(TRUE)
  \/ \E c \in Conns, room \in FaultRooms : OnSubscribe(c, room[1], room[2])
  \/ \E c \in Conns, room \in FaultRooms : OnUnsubscribe(c, room[1], room[2])
  \/ /\ FixIdle /\ Len(tasks) + 1 < MaxTasks
     /\ \E c \in Conns : handleLocationUpdate(c, GoodFix)
  \/ LocSteps(TRUE)

SpecSubs == InitSubs /\ [][NextSubs]_vars

\* The last subscription event socket c handled for the room was a subscribe.
LastWasSubscribe(c, room) ==
  LET evs == {i \in DOMAIN conns[c].subs : conns[c].subs[i].room = room} IN
    evs # {} /\ conns[c].subs[Last(evs)].ev = "subscribe"

ObserverConns == {c \in Conns : conns[c].role \in {"passenger", "admin"}}

Subscribed(room) ==
  {c \in ObserverConns : conns[c].st = "open" /\ LastWasSubscribe(c, room)}

\* C25: an observer socket is in route:R or vehicle:V exactly when it is
\* open and the last subscription event it handled for that id was a
\* subscribe; a socket that is not open is in no room; and an update sent to
\* route:R or vehicle:V is handed, once, to exactly the observers for which
\* that holds at that moment.
C25_MembershipFollowsLastEvent ==
  [][/\ \A c \in ObserverConns :
          /\ \A room \in FaultRooms :
               room \in conns'[c].rooms
               <=> (conns'[c].st = "open" /\ LastWasSubscribe(c, room)')
          /\ conns'[c].st # "open" => conns'[c].rooms = {}
     /\ \A k \in DOMAIN tasks :
          LET t == tasks[k]
              u == tasks'[k] IN
            /\ \A i \in Sent(u, "location_update") \ Sent(t, "location_update") :
                 u.out[i].to \cap ObserverConns = Subscribed(Room("vehicle", 1))
            /\ \A i \in Sent(u, "route_vehicle_update") \ Sent(t, "route_vehicle_update") :
                 u.out[i].to \cap ObserverConns = Subscribed(Room("route", 2))
            /\ Cardinality(Sent(u, "location_update")) <= 1
            /\ Cardinality(Sent(u, "route_vehicle_update")) <= 1]_vars

\* The passenger subscribed to vehicle:1 twice and was handed the fix's
\* location_update in its one message, and is now closed and in no room.
C25_SubscribedTwiceThenClosed ==
  /\ conns[2].subs = <<[ev |-> "subscribe", room |-> Room("vehicle", 1)],
                       [ev |-> "subscribe", room |-> Room("vehicle", 1)]>>
  /\ \E k \in LocationTasks :
       /\ tasks[k].pc = "done"
       /\ \E i \in Sent(tasks[k], "location_update") : tasks[k].out[i].to = {2}
       /\ \A i \in Sent(tasks[k], "route_vehicle_update") : tasks[k].out[i].to = {}
  /\ conns[2].st = "closed" /\ conns[2].rooms = {}

\* ------------------------------------------------------------ query surface
\* redisUtils.getActiveTripData: GET trip:active:<trip>
getActiveTripData(id) == IF id \in DOMAIN activeTrip THEN activeTrip[id] ELSE NoRow

\* redisUtils.getCachedETA: GET eta:<first>:<stop>:<vehicle>
getCachedETA(routeId, stopId, vehicleId) ==
  {e \in etaCache : e.trip = routeId /\ e.stop = stopId /\ e.vehicle = vehicleId}

\* active.nextStopIds || []: the row that handleTripStart stores has no such
\* field.
nextStopIds(active) == <<>>

\* GET /api/realtime/trips/:id/etas
realtimeEtas(id) ==
  LET active == getActiveTripData(id) IN
    IF ~active.found THEN [status |-> 404, etas |-> {}]
    ELSE LET stopIds == nextStopIds(active) IN
      [status |-> 200,
       etas |-> UNION {getCachedETA(active.row.route_id, stopIds[i], active.row.vehicle_id) :
                         i \in DOMAIN stopIds}]

\* C26 (as claimed): for every ETA entry the hub has cached for a trip that
\* was started through the hub, GET /api/realtime/trips/<trip>/etas answers
\* with an entry for that stop with that eta.
C26_CachedEtaServed ==
  \A e \in etaCache :
    getActiveTripData(e.trip).found =>
      LET r == realtimeEtas(e.trip) IN
        r.status = 200 /\ \E x \in r.etas : x.stop = e.stop /\ x.eta = e.eta

\* ------------------------------------------------------------ ETA arithmetic
\* Fixes at and around the first stops of route 1.
GeoFixes == {Fix(lat, lon, 40, 90, 5, Undef) : lat \in {30, 31}, lon \in {78, 79, 80}}

\* Driver 1 on one socket, with active trip 1 on route 1.
InitGeo ==
  /\ InitTrips(1, "active") /\ InitRest
  /\ conns = [c \in Conns |-> IF c = 1 THEN NewConn(1, "driver") ELSE Unused]

\* Fixes one after the other, the stores succeeding.
NextGeo ==
  \/ ConnStep(TRUE)
  \/ FixIdle /\ \E c \in Conns, data \in GeoFixes : handleLocationUpdate(c, data)
  \/ LocSteps(TRUE)

SpecGeo == InitGeo /\ [][NextGeo]_vars

\* round(km / 30 * 60) for a distance in hundredths of a km
RoundedMinutes(d) == (2 * d + 50) \div 100

\* C27: the distance between a point and itself is 0 and the ETA of
\* distance 0 is 0 minutes; every entry of a batch is the distance from the
\* fix to its stop, and its eta is a natural number, round(km / 30 * 60).
C27_EtaFromDistance ==
  /\ \A s \in Stops :
       calculateDistance(bus_stops[s].latitude, bus_stops[s].longitude,
                         bus_stops[s].latitude, bus_stops[s].longitude) = 0
  /\ \A k \in LocationTasks :
       LET t == tasks[k] IN
         \A i \in DOMAIN t.etas :
           LET e == t.etas[i]
               stop == bus_stops[e.stopId] IN
             /\ e.eta \in Nat /\ e.distance \in Nat
             /\ e.eta = RoundedMinutes(e.distance)
             /\ (t.data.latitude = stop.latitude /\ t.data.longitude = stop.longitude)
                <=> e.distance = 0
             /\ e.distance = 0 => e.eta = 0

\* A fix sent from stop 1: its batch gives stop 1 distance 0 and 0 minutes
\* and the other stops a positive eta.
C27_FixAtStop ==
  \E k \in LocationTasks :
    LET t == tasks[k] IN
      /\ t.pc = "done" /\ Len(t.etas) = 5
      /\ t.etas[1].stopId = 1 /\ t.etas[1].distance = 0 /\ t.etas[1].eta = 0
      /\ \A i \in 2..5 : t.etas[i].eta > 0

\* C28 (as claimed): the disconnect handling of a socket removes a
\* DriverSession only when the session names that socket, so the session a
\* driver's newer socket wrote survives the close of the older socket.
C28_DisconnectRemovesOwnSession ==
  [][\A d \in Drivers :
       (driverSession[d].present /\ ~driverSession'[d].present)
       => \E c \in Conns :
            /\ conns[c].dpc = "remove" /\ conns'[c].dpc # "remove"
            /\ driverSession[d].socketId = c]_vars

\* C29 (as claimed): no step changes the passenger count, the distance or
\* the end time of a trip that is completed.
C29_CompletedTripFrozen ==
  [][\A id \in Trips :
       trips[id].status = "completed" =>
         /\ trips'[id].passenger_count = trips[id].passenger_count
         /\ trips'[id].distance_covered = trips[id].distance_covered
         /\ trips'[id].actual_end_time = trips[id].actual_end_time]_vars

Snapshot(t) == t.pc \in {"loc_cache", "loc_publish", "loc_fanout"}
LocationEvents == {"location_update", "vehicle_location_update"}

\* C30 (as claimed): for every handled fix, the trip id of the snapshot that
\* is cached and of the location_update and vehicle_location_update events
\* is the trip id of the fix's row of vehicle_locations.
C30_SnapshotTripIsRowTrip ==
  \A k \in LocationTasks : \A i \in RowsOf(k) :
    LET t == tasks[k]
        row == vehicle_locations[i] IN
      /\ Snapshot(t) => Param(t.args.tripId) = row.trip_id
      /\ \A j \in DOMAIN t.out :
           t.out[j].ev \in LocationEvents => Param(t.out[j].p.tripId) = row.trip_id

\* C31 (as claimed): an eta_update is emitted only with the id of a trip
\* whose status is active at that moment.
C31_EtaOnlyForActiveTrip ==
  [][\A k \in DOMAIN tasks :
       LET t == tasks[k]
           u == tasks'[k] IN
         \A i \in Sent(u, "eta_update") \ Sent(t, "eta_update") :
           /\ u.out[i].p.tripId \in Trips
           /\ trips[u.out[i].p.tripId].status = "active"]_vars

\* C32 (as claimed): the active-trip snapshot of a trip exists only while the
\* trip's status is active, and GET /api/realtime/trips/<trip>/etas answers
\* 404 for a trip that is completed.
C32_SnapshotOnlyWhileActive ==
  \A id \in Trips :
    /\ getActiveTripData(id).found => trips[id].status = "active"
    /\ trips[id].status = "completed" => realtimeEtas(id).status = 404

\* The driver profile of the socket's user exists and has a vehicle.
HasVehicle(c) == \E r \in driverQuery(conns[c].user) : r.found /\ r.vehicle_id \in Vehicles

\* C33 (as claimed): a location_update sent on an open socket of a driver
\* whose profile exists and has a vehicle, once it is over, has appended a
\* row of vehicle_locations or has sent an error event to that socket.
C33_FixRecordedOrRefused ==
  \A k \in LocationTasks :
    LET t == tasks[k] IN
      (t.pc \in {"done", "ignored"} /\ HasVehicle(t.conn))
      => \/ RowsOf(k) # {}
         \/ \E i \in Sent(t, "error") : t.out[i].to = {t.conn}

\* The step is the update of start_trip task k taking effect.
StartApplied(k) ==
  /\ k \in DOMAIN tasks /\ tasks[k].kind = "start_trip"
  /\ "trips" \in tasks'[k].writes \ tasks[k].writes

\* C34: the trip a start_trip updates is the trip of the row the connect-time
\* lookup returned, whose status was active then; no step of a start_trip
\* takes a trip from scheduled to active, and a socket whose trip was
\* scheduled at connect time has no trip bound.
C34_StartOnlyOnTripActiveAtBind ==
  [][/\ \A k \in DOMAIN tasks :
          StartApplied(k) =>
            LET c == tasks[k].conn IN
              /\ conns[c].res.found /\ conns[c].res.trip_status = "active"
              /\ tasks[k].args.tripId = conns[c].res.trip_id
              /\ \A id \in Trips :
                   trips[id].status = "scheduled" => trips'[id].status = "scheduled"
     /\ \A c \in Conns :
          (conns'[c].hpc = "session" /\ conns[c].hpc # "session") =>
            (conns'[c].tripId \in Trips => trips[conns'[c].tripId].status = "active")]_vars

\* A start_trip on a socket that connected while trip 1 was scheduled was
\* answered with 'No active trip found' and trip 1 is still scheduled.
C34_ScheduledTripNotStarted ==
  \E k \in DOMAIN tasks :
    /\ tasks[k].kind = "start_trip"
    /\ OnlyError(tasks[k], "No active trip found") /\ tasks[k].writes = {}
    /\ Falsy(conns[tasks[k].conn].tripId)
    /\ \A id \in Trips : trips[id].status = "scheduled"

\* The start_trip and end_trip events that ended with an error event.
RefusedTripEvents ==
  {k \in DOMAIN tasks : /\ tasks[k].kind \in {"start_trip", "end_trip"}
                        /\ tasks[k].pc = "done" /\ Sent(tasks[k], "error") # {}}

\* C35 (as claimed): events being handled one at a time, when the last event
\* was a start_trip or end_trip that ended with an error event, the row of
\* its trip is as it was before the event, and the event has written neither
\* the driver's trip counter nor the DriverSession.
C35_ErrorLeavesNoTrace ==
  \A k \in RefusedTripEvents :
    LET t == tasks[k] IN
      k = Len(tasks) =>
        /\ t.res.found => trips[t.res.id] = t.before.row
        /\ "drivers" \notin t.writes
        /\ "driverSession" \notin t.writes

Ack(kind) == IF kind = "start_trip" THEN "trip_started" ELSE "trip_ended"
Replies(t) == Sent(t, Ack(t.kind)) \cup Sent(t, "error")

\* C36: a start_trip or end_trip that was handled has, once its handler is
\* over, one reply to its socket, the acknowledgement or one error event,
\* and before that at most one; it has sent trip_status_update at most
\* once, and only together with the acknowledgement.
C36_OneReplyPerTripEvent ==
  \A k \in DOMAIN tasks :
    LET t == tasks[k] IN
      t.kind \in {"start_trip", "end_trip"} =>
        /\ Cardinality(Replies(t)) <= 1
        /\ t.pc = "done" => Cardinality(Replies(t)) = 1
        /\ \A i \in Replies(t) : t.out[i].to = {t.conn}
        /\ Cardinality(Sent(t, "trip_status_update")) <= 1
        /\ Sent(t, "trip_status_update") # {} => Sent(t, Ack(t.kind)) # {}

\* A start_trip that was acknowledged and announced, followed by an end_trip
\* whose update was rejected and that was answered with one error event.
C36_AckThenError ==
  \E j, k \in DOMAIN tasks :
    /\ tasks[j].kind = "start_trip" /\ tasks[j].pc = "done"
    /\ Sent(tasks[j], "trip_started") # {} /\ Sent(tasks[j], "trip_status_update") # {}
    /\ tasks[k].kind = "end_trip" /\ tasks[k].pc = "done" /\ tasks[k].threw
    /\ Cardinality(Sent(tasks[k], "error")) = 1
    /\ Sent(tasks[k], "trip_ended") = {} /\ Sent(tasks[k], "trip_status_update") = {}

\* ------------------------------------------------------- durable before cached
\* Two fixes at different places.
DurableFixes == {Fix(30, 78, 40, 90, 5, Undef), Fix(31, 77, 0, Undef, Undef, 7)}

\* A socket of driver 1 (vehicle 1), no trip running.
InitDurable ==
  /\ InitTrips(1, "scheduled") /\ InitRest
  /\ conns = [c \in Conns |-> IF c = 1 THEN NewConn(1, "driver") ELSE Unused]

\* Fixes in any interleaving of their handlers, the insert and the Redis
\* commands failing or not.
NextDurable ==
  \/ ConnStep(TRUE)
  \/ \E c \in Conns, data \in DurableFixes : handleLocationUpdate(c, data)
  \/ \E ok \in BOOLEAN : IngestSteps(ok)

SpecDurable == InitDurable /\ [][NextDurable]_vars

\* A row of vehicle_locations of vehicle v at the place of snapshot d.
Recorded(v, d) ==
  \E i \in DOMAIN vehicle_locations :
    /\ vehicle_locations[i].vehicle_id = v
    /\ vehicle_locations[i].x = d.longitude /\ vehicle_locations[i].y = d.latitude

\* C37: the CachedLocation of a vehicle, when present, and every published
\* message carry the coordinates of a row of vehicle_locations of that
\* vehicle; a fix that has written the cache, published or notified a room
\* has its own row.
C37_CachedFixIsDurable ==
  /\ \A v \in Vehicles : vehicleLocation[v].found => Recorded(v, vehicleLocation[v].data)
  /\ \A i \in DOMAIN published : Recorded(published[i].data.vehicleId, published[i].data)
  /\ \A k \in LocationTasks :
       LET t == tasks[k] IN
         (\/ t.writes \cap {"vehicleLocation", "published"} # {}
          \/ \E i \in DOMAIN t.out : t.out[i].ev # "error")
         => RowsOf(k) # {}

\* The cache holds one fix while the other, whose insert was rejected, was
\* answered with an error and has left no trace.
C37_FailedFixNotCached ==
  \E j, k \in LocationTasks :
    /\ tasks[j].threw /\ tasks[j].pc = "done" /\ RowsOf(j) = {} /\ tasks[j].writes = {}
    /\ Sent(tasks[j], "error") # {}
    /\ tasks[k].pc = "done" /\ RowsOf(k) # {}
    /\ tasks[j].data.latitude # tasks[k].data.latitude
    /\ vehicleLocation[1].found
    /\ vehicleLocation[1].data.latitude = tasks[k].data.latitude

\* The open sockets bound to driver d.
BoundOpen(d) ==
  {c \in Conns : conns[c].st = "open" /\ conns[c].hpc = "ready" /\ conns[c].driverId = d}

\* C38 (as claimed): a driver whose profile status is inactive has no open
\* bound socket.
C38_InactiveOnlyWhenOffline ==
  \A d \in Drivers : drivers[d].status = "inactive" => BoundOpen(d) = {}

\* ------------------------------------------------------------ register-driver
\* POST /register-driver of routes/vehicles.js, the request having passed
\* authenticateToken, authorizeRoles('admin') and the validation.  A request
\* is a task; args holds its pooled client: txn is TRUE while the client has
\* a transaction open, released once client.release() was called.

\* Table users, by email: the seeded user and the users of the committed
\* registrations.
usersTable ==
  {"a@bus"} \cup {tasks[k].data.email :
                    k \in {j \in DOMAIN tasks : "users" \in tasks[j].writes}}

Respond(t, status, code) == Emit(t, Msg("response", {}, [status |-> status, code |-> code]))

\* finally { client.release() }
Release(t) == [t EXCEPT !.pc = "done", !.args.released = TRUE]

\* The handler up to the await of BEGIN: pool.connect() has given a client.
registerDriver(email) ==
  /\ CanReceive
  /\ tasks' = Append(tasks,
       [NewTask(0, "register_driver", [email |-> email]) EXCEPT
          !.pc = "reg_begin",
          !.args = [txn |-> FALSE, released |-> FALSE, inserted |-> FALSE]])
  /\ UNCHANGED <<conns, catalog, session>>

\* client.query('BEGIN')
RegBeginExec(k, ok) ==
  /\ Running(k, "reg_begin")
  /\ LET t == tasks[k] IN
       Store(k, IF ok THEN [t EXCEPT !.pc = "reg_select", !.args.txn = TRUE]
                ELSE [t EXCEPT !.pc = "reg_rollback", !.threw = TRUE,
                               !.res = [found |-> FALSE, code |-> "other"]])
  /\ UNCHANGED <<conns, catalog, session>>

\* SELECT id FROM users WHERE email = $1
RegSelectExec(k, ok) ==
  /\ Running(k, "reg_select")
  /\ LET t == tasks[k] IN
       Store(k, IF ok THEN [t EXCEPT !.pc = "reg_selected",
                                     !.res = [found |-> t.data.email \in usersTable]]
                ELSE [t EXCEPT !.pc = "reg_rollback", !.threw = TRUE,
                               !.res = [found |-> FALSE, code |-> "other"]])
  /\ UNCHANGED <<conns, catalog, session>>

\* if (existingUser.rows.length > 0) return res.status(409)...: the return
\* runs the finally block; otherwise hashPassword and the first INSERT.
RegAfterSelect(k) ==
  /\ Running(k, "reg_selected")
  /\ LET t == tasks[k] IN
       Store(k, IF t.res.found THEN Release(Respond(t, 409, "USER_EXISTS"))
                ELSE [t EXCEPT !.pc = "reg_user"])
  /\ UNCHANGED <<conns, catalog, session>>

\* INSERT INTO users ... RETURNING, then INSERT INTO drivers ... RETURNING id.
\* users.email is unique: 23505 when the email is committed, and the
\* statement waits while another transaction holds it uncommitted.
RegInsertExec(k, ok) ==
  /\ k \in DOMAIN tasks /\ tasks[k].pc \in {"reg_user", "reg_driver"}
  /\ LET t == tasks[k]
         failed(code) == [t EXCEPT !.pc = "reg_rollback", !.threw = TRUE,
                                   !.res = [found |-> FALSE, code |-> code]]
         holding == {j \in DOMAIN tasks : /\ tasks[j].kind = "register_driver"
                                          /\ tasks[j].data.email = t.data.email
                                          /\ tasks[j].args.txn /\ tasks[j].args.inserted} IN
       IF t.pc = "reg_user"
       THEN /\ holding = {}
            /\ Store(k, IF ~ok THEN failed("other")
                        ELSE IF t.data.email \in usersTable THEN failed("23505")
                        ELSE [t EXCEPT !.pc = "reg_driver", !.args.inserted = TRUE])
       ELSE Store(k, IF ok THEN [t EXCEPT !.pc = "reg_commit"] ELSE failed("other"))
  /\ UNCHANGED <<conns, catalog, session>>

\* client.query('COMMIT'), then res.status(201) and the finally block.
RegCommitExec(k, ok) ==
  /\ Running(k, "reg_commit")
  /\ LET t == tasks[k] IN
       Store(k, IF ok THEN Release(Respond([Wrote(t, "users") EXCEPT !.args.txn = FALSE],
                                           201, "REGISTERED"))
                ELSE [t EXCEPT !.pc = "reg_rollback", !.threw = TRUE,
                               !.res = [found |-> FALSE, code |-> "other"]])
  /\ UNCHANGED <<conns, catalog, session>>

\* The catch block: client.query('ROLLBACK'), then 409 for 23505 and 500
\* otherwise, then the finally block; a rejected ROLLBACK leaves the catch
\* block without a response, the finally block still runs.
RegRollbackExec(k, ok) ==
  /\ Running(k, "reg_rollback")
  /\ LET t == tasks[k]
         u == [t EXCEPT !.args.txn = FALSE, !.args.inserted = FALSE] IN
       Store(k, IF ~ok THEN Release(t)
                ELSE IF t.res.code = "23505" THEN Release(Respond(u, 409, "DUPLICATE_ERROR"))
                ELSE Release(Respond(u, 500, "SERVER_ERROR")))
  /\ UNCHANGED <<conns, catalog, session>>

\* No socket; registrations of a known and of a new email, in any
\* interleaving, any statement being rejected or not.
InitRegister ==
  /\ InitTrips(1, "scheduled") /\ InitRest
  /\ conns = [c \in Conns |-> Unused]

NextRegister ==
  \/ \E email \in {"a@bus", "b@bus"} : registerDriver(email)
  \/ \E k \in DOMAIN tasks, ok \in BOOLEAN : RegBeginExec(k, ok)
  \/ \E k \in DOMAIN tasks, ok \in BOOLEAN : RegSelectExec(k, ok)
  \/ \E k \in DOMAIN tasks : RegAfterSelect(k)
  \/ \E k \in DOMAIN tasks, ok \in BOOLEAN : RegInsertExec(k, ok)
  \/ \E k \in DOMAIN tasks, ok \in BOOLEAN : RegCommitExec(k, ok)
  \/ \E k \in DOMAIN tasks, ok \in BOOLEAN : RegRollbackExec(k, ok)

SpecRegister == InitRegister /\ [][NextRegister]_vars

\* C39 (as claimed): a registration whose client was released has no
\* transaction open on it.
C39_ReleasedWithoutTransaction ==
  \A k \in DOMAIN tasks :
    (tasks[k].kind = "register_driver" /\ tasks[k].args.released) => ~tasks[k].args.txn

====
